---- MODULE Spec2Model ----
(***************************************************************************)
(* Model of the interprocedural flow construction of dfpp/paralegal:       *)
(* the Inliner (src/src/ana/inline.rs) with its recursion breaking cache   *)
(* (src/src/utils.rs), and the older GlobalFlowConstructor pipeline        *)
(* (src/src/ana.rs).                                                       *)
(*                                                                         *)
(* A GlobalLocation is a sequence of links <<function, location>>, the     *)
(* outermost call site first and the innermost program point last.         *)
(***************************************************************************)
EXTENDS Integers, Sequences, FiniteSets, TLC

VARIABLES
    input,        \* the analysed crate and the analysis options (fixed per run)
    inline_memo,  \* Inliner::inline_memo: body id -> Absent | InProgress | Built graph
    stack,        \* active inline_graph invocations, innermost last
    lastGet,      \* the most recent RecursionBreakingCache::get call and its result
    computed,     \* per body id: how often the compute closure has been started
    built,        \* per body id: the first graph stored for it (history)
    requests,     \* number of outermost get_inlined_graph requests of this run
    trace,        \* the outermost requests of this run and their call-only flows
    prev,         \* the trace of the previous run of the inliner on this input
    runs,         \* number of runs of the inliner started so far
    broken,       \* the call nodes at which recursion was broken (history)
    lastPrune,    \* the most recent tail of inline_graph: graph before and after
    clock,        \* flips with every step the inliner takes on its own
    shrink,       \* compute_call_only_flow: the graph being shrunk and the flow so far
    dfs,          \* deep_dependencies_of: queue, seen and deps of the running search
    unwound,      \* the procedures whose computation a panic has unwound
    interner      \* GlobalLocationInterner: the arena, and the most recent operation

vars == <<input, inline_memo, stack, lastGet, computed, built, requests, trace, prev,
          runs, broken, lastPrune, clock, shrink, dfs, unwound,
          interner>>

----------------------------------------------------------------------------
(* Bounds of the model *)

\* the number of locations one interner holds
MaxArena == 3

\* cap on nested inline_graph invocations (never reached by the code itself)
MaxDepth == 4
\* number of outermost requests issued in one run
MaxRequests == 2
\* number of times the inliner is run on the same input
MaxRuns == 2
\* cap on how often compute is started for one body in one run
MaxComputes == 3

(* Program constants *)
RETURN_PLACE == 0

----------------------------------------------------------------------------
(* Small helpers on sequences and sets *)

Range(s) == {s[i] : i \in DOMAIN s}

\* the outcome of a call that panics and so returns nothing
Panicked == "panic"

\* the orders in which the elements of a set can be listed
RECURSIVE Perms(_)
Perms(S) ==
    IF S = {} THEN {<<>>}
    ELSE UNION {{<<x>> \o p : p \in Perms(S \ {x})} : x \in S}

\* the elements of set S in the order in which they occur in sequence ord
InOrder(S, ord) == SelectSeq(ord, LAMBDA x : x \in S)

IndexOf(s, x) == CHOOSE i \in DOMAIN s : s[i] = x

Last(s) == s[Len(s)]
Front(s) == SubSeq(s, 1, Len(s) - 1)

----------------------------------------------------------------------------
(* Global locations *)

Link(f, p) == <<f, p>>

\* GLI::globalize_location: a top-level location
globalize_location(location, function) == <<Link(function, location)>>

\* a nesting that puts the call site under the relative location
global_location_under_relative(relative_location, root_location, root_function) ==
    relative_location \o <<Link(root_function, root_location)>>

\* a nesting that forgets the relative location
global_location_without_relative(relative_location, root_location, root_function) ==
    <<Link(root_function, root_location)>>

\* GLI::global_location_from_relative: nest relative under the call site
global_location_from_relative(relative_location, root_location, root_function) ==
    <<Link(root_function, root_location)>> \o relative_location

is_at_root(loc) == Len(loc) = 1

outermost(loc) == loc[1]
outermost_location(loc) == loc[1][2]
innermost_function(loc) == loc[Len(loc)][1]
innermost_location(loc) == loc[Len(loc)][2]

\* the chain of call sites that leads to the function holding the innermost
\* location; NoLoc (none) for a top-level location
NoLoc == <<>>
parent(loc) == IF Len(loc) = 1 THEN NoLoc ELSE Front(loc)

\* GlobalLocationInterner before the first location is interned
NoPayload == [function |-> "", location |-> 0, next |-> 0]
NoOp == [kind |-> "none", a |-> 0, b |-> 0, loc |-> NoPayload, result |-> 0,
         order |-> "", allocated |-> FALSE]
NoInterner == [arena |-> <<>>, op |-> NoOp]

\* GliAt: the interner positioned at call site (location, function)
GliAt_relativize(here, loc) == global_location_from_relative(loc, here[2], here[1])
GliAt_as_global_location(here) == globalize_location(here[2], here[1])

----------------------------------------------------------------------------
(* Nodes, edges, graphs *)

ReturnNode == [kind |-> "Return", arg |-> 0, loc |-> NoLoc, fn |-> ""]
ArgumentNode(a) == [kind |-> "Argument", arg |-> a, loc |-> NoLoc, fn |-> ""]
CallNode(loc, fn) == [kind |-> "Call", arg |-> 0, loc |-> loc, fn |-> fn]

\* Node::map_call
map_call(n, F(_)) == IF n.kind = "Call" THEN CallNode(F(n.loc), n.fn) ELSE n

\* EdgeType
Data(i) == [ctrl |-> FALSE, idx |-> i]
Control == [ctrl |-> TRUE, idx |-> 0]

\* Edge
EmptyEdge == [data |-> {}, control |-> FALSE]
Edge_is_empty(e) == ~e.control /\ e.data = {}
add_type(e, t) ==
    IF t.ctrl THEN [e EXCEPT !.control = TRUE]
    ELSE [e EXCEPT !.data = @ \cup {t.idx}]
\* a merge that keeps only what both weights carry
Edge_merge_common(e, other) ==
    [data |-> e.data \cap other.data, control |-> e.control /\ other.control]

Edge_merge(e, other) ==
    [data |-> e.data \cup other.data, control |-> e.control \/ other.control]
into_types(e) ==
    {Data(i) : i \in e.data} \cup (IF e.control THEN {Control} ELSE {})

\* GraphMap: nodes in insertion order (an IndexMap), edges as a set of
\* [from, to, w] with at most one edge per ordered pair of nodes
\* (InlinedGraph: the graph, its equations and the inlining statistics)
EmptyGraph ==
    [nodes |-> <<>>, edges |-> {}, equations |-> <<>>,
     num_inlined |-> 0, max_call_stack_depth |-> 0]

HasNode(g, n) == \E i \in DOMAIN g.nodes : g.nodes[i] = n
HasEdge(g, a, b) == \E e \in g.edges : e.from = a /\ e.to = b
edge_weight(g, a, b) == (CHOOSE e \in g.edges : e.from = a /\ e.to = b).w

add_node(g, n) == IF HasNode(g, n) THEN g ELSE [g EXCEPT !.nodes = Append(@, n)]

SetEdge(g, a, b, w) ==
    [g EXCEPT !.edges = {e \in @ : ~(e.from = a /\ e.to = b)}
                            \cup {[from |-> a, to |-> b, w |-> w]}]

\* GraphMap::add_edge on an absent edge: inserts both end points, source first
add_edge(g, a, b, w) == SetEdge(add_node(add_node(g, a), b), a, b, w)

remove_edge(g, a, b) ==
    [g EXCEPT !.edges = {e \in @ : ~(e.from = a /\ e.to = b)}]

\* GraphMap::remove_node: IndexMap::swap_remove, and drops the incident edges
remove_node(g, n) ==
    IF ~HasNode(g, n) THEN g
    ELSE LET i == IndexOf(g.nodes, n)
             len == Len(g.nodes)
             moved == [j \in 1..(len - 1) |->
                          IF j = i THEN g.nodes[len] ELSE g.nodes[j]]
         IN [g EXCEPT !.nodes = moved,
                      !.edges = {e \in @ : e.from # n /\ e.to # n}]

\* add_weighted_edge
add_weighted_edge(g, source, target, weight) ==
    IF HasEdge(g, source, target)
    THEN SetEdge(g, source, target, Edge_merge(edge_weight(g, source, target), weight))
    ELSE add_edge(g, source, target, weight)

\* edges_directed(n, Incoming / Outgoing)
Incoming(g, n) == {e \in g.edges : e.to = n}
Outgoing(g, n) == {e \in g.edges : e.from = n}

----------------------------------------------------------------------------
(* Equations over global locals *)

NoLocal == -1

GlobalLocal_at_root(local) == [local |-> local, location |-> NoLoc]
GlobalLocal_relative(local, location) == [local |-> local, location |-> location]

Term_new_base(b) == [base |-> b, proj |-> <<>>]
Term_add_unknown(t) == [t EXCEPT !.proj = Append(@, "unknown")]
Equality_new(l, r) == [lhs |-> l, rhs |-> r]

map_bases(eq, F(_)) ==
    [lhs |-> [eq.lhs EXCEPT !.base = F(@)], rhs |-> [eq.rhs EXCEPT !.base = F(@)]]

arg_num_to_local(a) == a + 1

----------------------------------------------------------------------------
(* The single-procedure summaries (regal::Body) handed to the inliner *)

\* the lang item from_generator_fn
FromGenerator == "from_generator"

\* regal::Target
TCall(p) == [call |-> TRUE, n |-> p]
TArg(i) == [call |-> FALSE, n |-> i]

\* an argument of a call: None for a constant, else (local, dependencies)
NoArg == [some |-> FALSE, local |-> NoLocal, deps |-> {}]
Arg(local, deps) == [some |-> TRUE, local |-> local, deps |-> deps]

\* regal::Call
MkCall(fn, args, ret, ctrl) ==
    [function |-> fn, arguments |-> args, return_to |-> ret, ctrl_deps |-> ctrl]

\* an equation of a body between two plain locals
LEq(w, r) == Equality_new(Term_new_base(w), Term_new_base(r))

\* regal::Call::argument_locals
argument_locals(call) ==
    {call.arguments[i].local : i \in {j \in DOMAIN call.arguments : call.arguments[j].some}}

MkBody(calls, rdeps, radeps, eqs) ==
    [calls |-> calls, return_deps |-> rdeps, return_arg_deps |-> radeps,
     equations |-> eqs]

\* entry calls get(), passes the result to dp(), passes dp's result to send()
ChainMain ==
    MkBody([p \in {1, 2, 3} |->
              CASE p = 1 -> MkCall("get", <<>>, 1, {})
                [] p = 2 -> MkCall("dp", <<Arg(2, {TCall(1)})>>, 3, {})
                [] p = 3 -> MkCall("send", <<Arg(4, {TCall(2)})>>, NoLocal, {})],
           {}, <<>>, <<LEq(2, 1), LEq(4, 3)>>)

\* caller c: src1(), src2(), d(a, b), sink(result of d); d's result depends
\* on its first parameter only and d makes no calls
InlineC ==
    MkBody([p \in {1, 2, 3, 4} |->
              CASE p = 1 -> MkCall("src1", <<>>, 1, {})
                [] p = 2 -> MkCall("src2", <<>>, 2, {})
                [] p = 3 -> MkCall("d", <<Arg(3, {TCall(1)}), Arg(4, {TCall(2)})>>, 5, {})
                [] p = 4 -> MkCall("sink", <<Arg(6, {TCall(3)})>>, NoLocal, {})],
           {}, <<>>, <<LEq(3, 1), LEq(4, 2), LEq(6, 5)>>)
InlineD ==
    MkBody(<<>>, {TArg(0)}, <<{}, {}>>, <<LEq(RETURN_PLACE, 1)>>)

\* two values cross the boundary of the inlined callee f(a, b), which hands
\* a to send and b to send2 (after a constant first argument); the values are
\* passed on in place
TwoMain ==
    MkBody([p \in {1, 2, 3} |->
              CASE p = 1 -> MkCall("get", <<>>, 1, {})
                [] p = 2 -> MkCall("get2", <<>>, 2, {})
                [] p = 3 -> MkCall("f", <<Arg(1, {TCall(1)}), Arg(2, {TCall(2)})>>,
                                   NoLocal, {})],
           {}, <<>>, <<>>)
TwoF ==
    MkBody([p \in {1, 2} |->
              CASE p = 1 -> MkCall("send", <<Arg(1, {TArg(0)})>>, NoLocal, {})
                [] p = 2 -> MkCall("send2", <<NoArg, Arg(2, {TArg(1)})>>, NoLocal, {})],
           {}, <<{}, {}>>, <<>>)

\* caller: src1(), src2(), d(a, b), sink(result of d), sink2(copy of a),
\* where the summary lets the argument of sink2 depend on src2 as well;
\* d returns a, but which value it returns is decided by b: the return
\* value depends on both parameters and is an alias of the first only
PruneMain ==
    MkBody([p \in {1, 2, 3, 4, 5} |->
              CASE p = 1 -> MkCall("src1", <<>>, 1, {})
                [] p = 2 -> MkCall("src2", <<>>, 2, {})
                [] p = 3 -> MkCall("d", <<Arg(1, {TCall(1)}), Arg(2, {TCall(2)})>>, 5, {})
                [] p = 4 -> MkCall("sink", <<Arg(5, {TCall(3)})>>, NoLocal, {})
                [] p = 5 -> MkCall("sink2", <<Arg(7, {TCall(1), TCall(2)})>>, NoLocal, {})],
           {}, <<>>, <<LEq(7, 1)>>)
PruneD ==
    MkBody(<<>>, {TArg(0), TArg(1)}, <<{}, {}>>, <<LEq(RETURN_PLACE, 1)>>)

\* f(x) calls itself and log, a local function without a body; main calls f
RecMain ==
    MkBody([p \in {1, 2, 3} |->
              CASE p = 1 -> MkCall("src", <<>>, 1, {})
                [] p = 2 -> MkCall("f", <<Arg(2, {TCall(1)})>>, 3, {})
                [] p = 3 -> MkCall("sink", <<Arg(4, {TCall(2)})>>, NoLocal, {})],
           {}, <<>>, <<LEq(2, 1), LEq(4, 3)>>)
RecF ==
    MkBody([p \in {1, 2} |->
              CASE p = 1 -> MkCall("f", <<Arg(2, {TArg(0)})>>, 3, {})
                [] p = 2 -> MkCall("log", <<Arg(4, {TCall(1)})>>, NoLocal, {TCall(1)})],
           {TCall(1)}, <<{}>>, <<LEq(2, 1), LEq(4, 3), LEq(RETURN_PLACE, 3)>>)

\* a(x) calls b, b(x) calls a and hands a's result to sink
MutA ==
    MkBody([p \in {1} |-> MkCall("b", <<Arg(2, {TArg(0)})>>, 3, {})],
           {TCall(1)}, <<{}>>, <<LEq(2, 1), LEq(RETURN_PLACE, 3)>>)
MutB ==
    MkBody([p \in {1, 2} |->
              CASE p = 1 -> MkCall("a", <<Arg(2, {TArg(0)})>>, 3, {})
                [] p = 2 -> MkCall("sink", <<Arg(4, {TCall(1)})>>, NoLocal, {})],
           {TCall(1)}, <<{}>>, <<LEq(2, 1), LEq(4, 3), LEq(RETURN_PLACE, 3)>>)

\* main polls a future: make(), ctx(), poll(future, context), send(result)
AsyncMain ==
    MkBody([p \in {1, 2, 3, 4} |->
              CASE p = 1 -> MkCall("make", <<>>, 1, {})
                [] p = 2 -> MkCall("ctx", <<>>, 6, {})
                [] p = 3 -> MkCall("poll", <<Arg(2, {TCall(1)}), Arg(3, {TCall(2)})>>, 4, {})
                [] p = 4 -> MkCall("send", <<Arg(5, {TCall(3)})>>, NoLocal, {})],
           {}, <<>>, <<LEq(2, 1), LEq(3, 6), LEq(5, 4)>>)

\* main calls f(&mut x, &mut y) in a loop, so that the call depends on
\* itself; f hands both to h, and h's effect on y is visible to the caller
LoopMain ==
    MkBody([p \in {1, 2, 3} |->
              CASE p = 1 -> MkCall("src", <<>>, 1, {})
                [] p = 2 -> MkCall("f", <<Arg(2, {TCall(1), TCall(2)}),
                                          Arg(5, {TCall(1)})>>, 3, {})
                [] p = 3 -> MkCall("sink", <<Arg(4, {TCall(2)})>>, NoLocal, {})],
           {}, <<>>, <<LEq(2, 1), LEq(5, 1), LEq(4, 3)>>)
LoopF ==
    MkBody([p \in {1} |-> MkCall("h", <<Arg(3, {TArg(0), TArg(1)})>>, 4, {})],
           {TCall(1)}, <<{}, {TCall(1)}>>,
           <<LEq(3, 1), LEq(3, 2), LEq(RETURN_PLACE, 4)>>)

\* main calls init(), which takes nothing and whose result is not used, and
\* then hands the result of get to send
IsolatedMain ==
    MkBody([p \in {1, 2, 3} |->
              CASE p = 1 -> MkCall("init", <<>>, NoLocal, {})
                [] p = 2 -> MkCall("get", <<>>, 1, {})
                [] p = 3 -> MkCall("send", <<Arg(2, {TCall(2)})>>, NoLocal, {})],
           {}, <<>>, <<LEq(2, 1)>>)

\* main hands the result of src through g twice and then to sink; g(x) logs
\* x and returns it
TwiceMain ==
    MkBody([p \in {1, 2, 3, 4} |->
              CASE p = 1 -> MkCall("src", <<>>, 1, {})
                [] p = 2 -> MkCall("g", <<Arg(2, {TCall(1)})>>, 3, {})
                [] p = 3 -> MkCall("g", <<Arg(4, {TCall(2)})>>, 5, {})
                [] p = 4 -> MkCall("sink", <<Arg(6, {TCall(3)})>>, NoLocal, {})],
           {}, <<>>, <<LEq(2, 1), LEq(4, 3), LEq(6, 5)>>)
TwiceG ==
    MkBody([p \in {1} |-> MkCall("log", <<Arg(2, {TArg(0)})>>, NoLocal, {})],
           {TArg(0)}, <<{}>>, <<LEq(2, 1), LEq(RETURN_PLACE, 1)>>)

\* main hands the result of src to g and g's result to sink; g(x) returns
\* h(x), and h(x) returns x: two levels of inlining
DeepMain ==
    MkBody([p \in {1, 2, 3} |->
              CASE p = 1 -> MkCall("src", <<>>, 1, {})
                [] p = 2 -> MkCall("g", <<Arg(2, {TCall(1)})>>, 3, {})
                [] p = 3 -> MkCall("sink", <<Arg(4, {TCall(2)})>>, NoLocal, {})],
           {}, <<>>, <<LEq(2, 1), LEq(4, 3)>>)
DeepG ==
    MkBody([p \in {1} |-> MkCall("h", <<Arg(2, {TArg(0)})>>, 3, {})],
           {TCall(1)}, <<{}>>, <<LEq(2, 1), LEq(RETURN_PLACE, 3)>>)
DeepH ==
    MkBody(<<>>, {TArg(0)}, <<{}>>, <<LEq(RETURN_PLACE, 1)>>)

\* main makes a value, wraps a generator around it, and sends the future;
\* the generator hands what it captured to work and returns the result
GenMain ==
    MkBody([p \in {1, 2, 3} |->
              CASE p = 1 -> MkCall("make", <<>>, 1, {})
                [] p = 2 -> MkCall(FromGenerator, <<Arg(2, {TCall(1)})>>, 3, {})
                [] p = 3 -> MkCall("send", <<Arg(4, {TCall(2)})>>, NoLocal, {})],
           {}, <<>>, <<LEq(2, 1), LEq(4, 3)>>)
GenClosure ==
    MkBody([p \in {1} |-> MkCall("work", <<Arg(2, {TArg(0)})>>, 3, {})],
           {TCall(1)}, <<{}>>, <<LEq(2, 1), LEq(RETURN_PLACE, 3)>>)

\* main hands the result of src through a and then b, neither of them
\* labelled, to sink
PipeMain ==
    MkBody([p \in {1, 2, 3, 4} |->
              CASE p = 1 -> MkCall("src", <<>>, 1, {})
                [] p = 2 -> MkCall("a", <<Arg(2, {TCall(1)})>>, 3, {})
                [] p = 3 -> MkCall("b", <<Arg(4, {TCall(2)})>>, 5, {})
                [] p = 4 -> MkCall("sink", <<Arg(6, {TCall(3)})>>, NoLocal, {})],
           {}, <<>>, <<LEq(2, 1), LEq(4, 3), LEq(6, 5)>>)

\* main hands the results of get and get2 to f(a, b) and logs the result of
\* get; f sends a and b, where the summary lets the second argument of send
\* depend on a as well, and hands a to send2 under a summary that names b
BitsMain ==
    MkBody([p \in {1, 2, 3, 4} |->
              CASE p = 1 -> MkCall("get", <<>>, 1, {})
                [] p = 2 -> MkCall("get2", <<>>, 2, {})
                [] p = 3 -> MkCall("f", <<Arg(1, {TCall(1)}), Arg(2, {TCall(2)})>>,
                                   NoLocal, {})
                [] p = 4 -> MkCall("log", <<Arg(3, {TCall(1)})>>, NoLocal, {})],
           {}, <<>>, <<LEq(3, 1)>>)
BitsF ==
    MkBody([p \in {1, 2} |->
              CASE p = 1 -> MkCall("send", <<Arg(1, {TArg(0)}), Arg(2, {TArg(0), TArg(1)})>>,
                                   NoLocal, {})
                [] p = 2 -> MkCall("send2", <<Arg(1, {TArg(1)})>>, NoLocal, {})],
           {}, <<{}, {}>>, <<>>)

\* main hands the result of f to use; f hands the results of mk1 and mk2 to
\* join, the result of join to out, and returns it: when the summary of out
\* is the first to enter the graph of f, the node of join comes before the
\* nodes of both of its sources
OrderMain ==
    MkBody([p \in {1, 2} |->
              CASE p = 1 -> MkCall("f", <<>>, 1, {})
                [] p = 2 -> MkCall("use", <<Arg(2, {TCall(1)})>>, NoLocal, {})],
           {}, <<>>, <<LEq(2, 1)>>)
OrderF ==
    MkBody([p \in {1, 2, 3, 4} |->
              CASE p = 1 -> MkCall("mk1", <<>>, 1, {})
                [] p = 2 -> MkCall("mk2", <<>>, 2, {})
                [] p = 3 -> MkCall("join", <<Arg(3, {TCall(1), TCall(2)})>>, 4, {})
                [] p = 4 -> MkCall("out", <<Arg(5, {TCall(3)})>>, NoLocal, {})],
           {TCall(3)}, <<>>, <<LEq(3, 1), LEq(3, 2), LEq(5, 4), LEq(RETURN_PLACE, 4)>>)

\* A crate: the bodies of its local functions, the local functions without a
\* body, what the Oracle answers, the signatures, and the entry points.
MkCrate(name, bodies, nobody, inl, meaningful, inputs, mutargs, entries) ==
    [name |-> name, bodies |-> bodies, nobody |-> nobody, should_inline |-> inl,
     meaningful |-> meaningful, inputs |-> inputs, mut_args |-> mutargs,
     entries |-> entries, generators |-> <<>>]

NoMut(S) == [f \in S |-> {}]

ChainCrate(name, meaningful) ==
    MkCrate(name, [f \in {"main"} |-> ChainMain], {}, {}, meaningful,
            [f \in {"main", "get", "dp", "send"} |->
                CASE f = "dp" -> 1 [] f = "send" -> 1 [] OTHER -> 0],
            NoMut({"main", "get", "dp", "send"}), {"main"})

\* dp(x) returns x
ChainDp ==
    MkBody(<<>>, {TArg(0)}, <<{}>>, <<LEq(RETURN_PLACE, 1)>>)

\* the chain with dp a local function with a body, unlabelled, which the
\* oracle selects for inlining or not
ChainLocalCrate(name, inl) ==
    MkCrate(name, [f \in {"main", "dp"} |-> IF f = "main" THEN ChainMain ELSE ChainDp],
            {}, inl, {"get", "send"},
            [f \in {"main", "get", "dp", "send"} |->
                CASE f = "dp" -> 1 [] f = "send" -> 1 [] OTHER -> 0],
            NoMut({"main", "get", "dp", "send"}), {"main"})

\* main hands the result of src to mid, mid's result to d and d's result to
\* sink; d is a local function that returns its parameter, mid is neither
\* local nor labelled
RelayMain ==
    MkBody([p \in {1, 2, 3, 4} |->
              CASE p = 1 -> MkCall("src", <<>>, 1, {})
                [] p = 2 -> MkCall("mid", <<Arg(2, {TCall(1)})>>, 3, {})
                [] p = 3 -> MkCall("d", <<Arg(4, {TCall(2)})>>, 5, {})
                [] p = 4 -> MkCall("sink", <<Arg(6, {TCall(3)})>>, NoLocal, {})],
           {}, <<>>, <<LEq(2, 1), LEq(4, 3), LEq(6, 5)>>)

RelayCrate ==
    MkCrate("relay", [f \in {"main", "d"} |-> IF f = "main" THEN RelayMain ELSE ChainDp],
            {}, {"d"}, {"src", "sink"},
            [f \in {"main", "d", "src", "mid", "sink"} |->
                IF f \in {"d", "mid", "sink"} THEN 1 ELSE 0],
            NoMut({"main", "d", "src", "mid", "sink"}), {"main"})

InlineCrate ==
    MkCrate("inline", [f \in {"c", "d"} |-> IF f = "c" THEN InlineC ELSE InlineD],
            {}, {"d"}, {"src1", "src2", "sink"},
            [f \in {"c", "d", "src1", "src2", "sink"} |->
                CASE f = "d" -> 2 [] f = "sink" -> 1 [] OTHER -> 0],
            NoMut({"c", "d", "src1", "src2", "sink"}), {"c"})

TwoCrate ==
    MkCrate("two", [f \in {"main", "f"} |-> IF f = "main" THEN TwoMain ELSE TwoF],
            {}, {"f"}, {"get", "get2", "send", "send2"},
            [f \in {"main", "f", "get", "get2", "send", "send2"} |->
                CASE f = "f" -> 2 [] f = "send" -> 1 [] f = "send2" -> 2 [] OTHER -> 0],
            NoMut({"main", "f", "get", "get2", "send", "send2"}), {"main"})

RecCrate ==
    MkCrate("rec", [f \in {"main", "f"} |-> IF f = "main" THEN RecMain ELSE RecF],
            {"log"}, {"f", "log"}, {"src", "sink"},
            [f \in {"main", "f", "src", "sink", "log"} |->
                CASE f = "f" -> 1 [] f = "sink" -> 1 [] f = "log" -> 1 [] OTHER -> 0],
            NoMut({"main", "f", "src", "sink", "log"}), {"main", "f"})

MutCrate ==
    MkCrate("mutual", [f \in {"a", "b"} |-> IF f = "a" THEN MutA ELSE MutB],
            {}, {"a", "b"}, {"sink"},
            [f \in {"a", "b", "sink"} |-> 1],
            NoMut({"a", "b", "sink"}), {"a", "b"})

AsyncCrate ==
    MkCrate("async", [f \in {"main"} |-> AsyncMain], {}, {}, {"make", "send"},
            [f \in {"main", "make", "ctx", "poll", "send"} |->
                CASE f = "poll" -> 2 [] f = "send" -> 1 [] OTHER -> 0],
            [f \in {"main", "make", "ctx", "poll", "send"} |->
                IF f = "poll" THEN {0, 1} ELSE {}], {"main"})

PruneCrate ==
    MkCrate("prune", [f \in {"main", "d"} |-> IF f = "main" THEN PruneMain ELSE PruneD],
            {}, {"d"}, {"src1", "src2", "sink", "sink2"},
            [f \in {"main", "d", "src1", "src2", "sink", "sink2"} |->
                CASE f = "d" -> 2 [] f = "sink" -> 1 [] f = "sink2" -> 1 [] OTHER -> 0],
            NoMut({"main", "d", "src1", "src2", "sink", "sink2"}), {"main"})

LoopCrate ==
    MkCrate("loop", [f \in {"main", "f"} |-> IF f = "main" THEN LoopMain ELSE LoopF],
            {}, {"f"}, {"src", "h", "sink"},
            [f \in {"main", "f", "src", "h", "sink"} |->
                CASE f = "main" -> 0 [] f = "src" -> 0 [] f = "f" -> 2 [] OTHER -> 1],
            [f \in {"main", "f", "src", "h", "sink"} |->
                IF f = "f" THEN {1} ELSE {}], {"main"})

IsolatedCrate ==
    MkCrate("isolated", [f \in {"main"} |-> IsolatedMain], {}, {}, {"init", "get", "send"},
            [f \in {"main", "init", "get", "send"} |-> IF f = "send" THEN 1 ELSE 0],
            NoMut({"main", "init", "get", "send"}), {"main"})

TwiceCrate ==
    MkCrate("twice", [f \in {"main", "g"} |-> IF f = "main" THEN TwiceMain ELSE TwiceG],
            {}, {"g"}, {"src", "log", "sink"},
            [f \in {"main", "g", "src", "log", "sink"} |->
                CASE f = "main" -> 0 [] f = "src" -> 0 [] OTHER -> 1],
            NoMut({"main", "g", "src", "log", "sink"}), {"main"})

DeepCrate ==
    MkCrate("deep", [f \in {"main", "g", "h"} |->
                        CASE f = "main" -> DeepMain [] f = "g" -> DeepG [] OTHER -> DeepH],
            {}, {"g", "h"}, {"src", "sink"},
            [f \in {"main", "g", "h", "src", "sink"} |->
                CASE f = "main" -> 0 [] f = "src" -> 0 [] OTHER -> 1],
            NoMut({"main", "g", "h", "src", "sink"}), {"main"})

GenCrate ==
    [MkCrate("gen", [f \in {"main", "main_gen"} |-> IF f = "main" THEN GenMain ELSE GenClosure],
             {}, {}, {"make", "send"},
             [f \in {"main", "main_gen", "make", "work", "send", FromGenerator} |->
                 IF f \in {"main", "make"} THEN 0 ELSE 1],
             NoMut({"main", "main_gen", "make", "work", "send", FromGenerator}), {"main"})
       EXCEPT !.generators = [k \in {<<"main", 2>>} |-> "main_gen"]]

PipeCrate ==
    MkCrate("pipe", [f \in {"main"} |-> PipeMain], {}, {}, {"src", "sink"},
            [f \in {"main", "src", "a", "b", "sink"} |->
                IF f \in {"main", "src"} THEN 0 ELSE 1],
            NoMut({"main", "src", "a", "b", "sink"}), {"main"})

BitsCrate ==
    MkCrate("bits", [f \in {"main", "f"} |-> IF f = "main" THEN BitsMain ELSE BitsF],
            {}, {"f"}, {"get", "get2", "send", "send2", "log"},
            [f \in {"main", "f", "get", "get2", "send", "send2", "log"} |->
                CASE f \in {"f", "send"} -> 2 [] f \in {"send2", "log"} -> 1 [] OTHER -> 0],
            NoMut({"main", "f", "get", "get2", "send", "send2", "log"}), {"main"})

OrderCrate ==
    MkCrate("order", [f \in {"main", "f"} |-> IF f = "main" THEN OrderMain ELSE OrderF],
            {}, {"f"}, {"mk1", "mk2", "join", "out", "use"},
            [f \in {"main", "f", "mk1", "mk2", "join", "out", "use"} |->
                IF f \in {"join", "out", "use"} THEN 1 ELSE 0],
            NoMut({"main", "f", "mk1", "mk2", "join", "out", "use"}), {"main"})

Crates ==
    {ChainCrate("chain", {"get", "send"}), ChainCrate("chainLabelled", {"get", "dp", "send"}),
     ChainLocalCrate("chainLocal", {}), ChainLocalCrate("chainInlinable", {"dp"}),
     InlineCrate, TwoCrate, RecCrate, MutCrate, AsyncCrate, LoopCrate, PruneCrate,
     TwiceCrate, IsolatedCrate, DeepCrate, GenCrate, PipeCrate, BitsCrate, OrderCrate, RelayCrate}

\* AnalysisCtrl: use_recursive_analysis, remove_inconsequential_calls,
\* use_pruning / pruning_strategy, drop_poll
Ctrls ==
    [recursive : BOOLEAN,
     remove : {"Disabled", "Conservative", "Aggressive"},
     pruning : {"Off", "NotPreviouslyPrunedEdges", "NewEdges", "NewEdgesNotPreviouslyPruned"},
     drop_poll : BOOLEAN]

is_enabled(policy) == policy # "Disabled"
remove_ctrl_flow_source(policy) == policy = "Aggressive"

----------------------------------------------------------------------------
(* Folding over sets and sequences *)

RECURSIVE FoldSet(_, _, _)
FoldSet(Op(_, _), acc, S) ==
    IF S = {} THEN acc
    ELSE LET x == CHOOSE y \in S : TRUE
         IN FoldSet(Op, Op(acc, x), S \ {x})

RECURSIVE FoldSeq(_, _, _)
FoldSeq(Op(_, _), acc, s) ==
    IF s = <<>> THEN acc ELSE FoldSeq(Op, Op(acc, Head(s)), Tail(s))

\* 0, 1, ..., n-1 as a sequence
Upto(n) == [i \in 1..n |-> i - 1]

Max(a, b) == IF a >= b THEN a ELSE b

----------------------------------------------------------------------------
(* InlinedGraph::from_body *)

\* to_global_equations: every local becomes a global local at the root
to_global_equations(eqs) ==
    [i \in DOMAIN eqs |-> map_bases(eqs[i], GlobalLocal_at_root)]

\* the node a regal::Target stands for in the body of body_id
TargetNode(body, body_id, d) ==
    IF d.call
    THEN CallNode(globalize_location(d.n, body_id), body.calls[d.n].function)
    ELSE ArgumentNode(d.n)

\* dependency edges drawn from the dependent node to what it depends on
add_dep_edges_reversed(g, body, body_id, to, idx, deps) ==
    LET one(acc, d) ==
            LET from == TargetNode(body, body_id, d)
            IN IF HasEdge(acc, to, from)
               THEN SetEdge(acc, to, from, add_type(edge_weight(acc, to, from), idx))
               ELSE add_edge(acc, to, from, add_type(EmptyEdge, idx))
    IN FoldSeq(one, g, deps)

\* the closure add_dep_edges; deps is the dependency set in iteration order
add_dep_edges(g, body, body_id, to, idx, deps) ==
    LET one(acc, d) ==
            LET from == TargetNode(body, body_id, d)
            IN IF HasEdge(acc, from, to)
               THEN SetEdge(acc, from, to, add_type(edge_weight(acc, from, to), idx))
               ELSE add_edge(acc, from, to, add_type(EmptyEdge, idx))
    IN FoldSeq(one, g, deps)

\* from_body, with the iteration order of the hash maps and hash sets made
\* explicit: ord.calls orders body.calls, ord.rank orders every dependency set
from_body(body_id, body, ord) ==
    LET g0 == add_node([EmptyGraph EXCEPT
                           !.equations = to_global_equations(body.equations)],
                       ReturnNode)
        oneCall(acc, loc) ==
            LET call == body.calls[loc]
                n == CallNode(globalize_location(loc, body_id), call.function)
                oneArg(a, i) ==
                    IF call.arguments[i + 1].some
                    THEN add_dep_edges(a, body, body_id, n, Data(i),
                                       InOrder(call.arguments[i + 1].deps, ord.rank))
                    ELSE a
                g1 == FoldSeq(oneArg, acc, Upto(Len(call.arguments)))
            IN add_dep_edges(g1, body, body_id, n, Control,
                             InOrder(call.ctrl_deps, ord.rank))
        g2 == FoldSeq(oneCall, g0, ord.calls)
        g3 == add_dep_edges(g2, body, body_id, ReturnNode, Data(0),
                            InOrder(body.return_deps, ord.rank))
        oneRetArg(acc, i) ==
            add_dep_edges(acc, body, body_id, ArgumentNode(i), Data(0),
                          InOrder(body.return_arg_deps[i + 1], ord.rank))
    IN FoldSeq(oneRetArg, g3, Upto(Len(body.return_arg_deps)))

\* all targets mentioned in a body, and the iteration orders from_body may see
TargetsOf(body) ==
    UNION {UNION {body.calls[p].arguments[i].deps : i \in DOMAIN body.calls[p].arguments}
              \cup body.calls[p].ctrl_deps : p \in DOMAIN body.calls}
      \cup body.return_deps
      \cup UNION {body.return_arg_deps[i] : i \in DOMAIN body.return_arg_deps}

Orders(body) ==
    {[calls |-> c, rank |-> r] : c \in Perms(DOMAIN body.calls), r \in Perms(TargetsOf(body))}

----------------------------------------------------------------------------
(* Inliner: what the type context and the oracle answer *)

\* the generator behind the closure argument of a from_generator call: the
\* type of the closure's local names it
closure_fn(crate, body_id, closure) == crate.generators[<<body_id, closure>>]

\* the lang item future_poll_fn
FuturePoll == "poll"

as_local(crate, f) == f \in DOMAIN crate.bodies \cup crate.nobody
maybe_body_owned_by(crate, f) == f \in DOMAIN crate.bodies
should_inline(crate, f) == f \in crate.should_inline
is_semantically_meaningful(crate, f) == f \in crate.meaningful

\* Inliner::get_call
get_call(crate, loc) == crate.bodies[innermost_function(loc)].calls[innermost_location(loc)]

\* Inliner::writeable_arguments, ascending
writeable_arguments(crate, f) ==
    SelectSeq(Upto(crate.inputs[f]), LAMBDA i : i \in crate.mut_args[f])

\* the locals of the non-constant arguments, in argument order
ArgLocalSeq(call) ==
    LET some == SelectSeq(Upto(Len(call.arguments)), LAMBDA i : call.arguments[i + 1].some)
    IN [k \in DOMAIN some |-> call.arguments[some[k] + 1].local]

\* return_to as a sequence of at most one local
ReturnSeq(call) == IF call.return_to = NoLocal THEN <<>> ELSE <<call.return_to>>

\* the equations that stand for a call that is not inlined: every writeable
\* place of the call may hold something reachable from every argument. The
\* index call.arguments[idx] panics for a writeable input of the signature
\* that the call has no argument for.
AbstractionEquations_panics(crate, call) ==
    \E i \in Range(writeable_arguments(crate, call.function)) : i >= Len(call.arguments)

AbstractionEquations(crate, call) ==
    IF AbstractionEquations_panics(crate, call) THEN Panicked
    ELSE
    LET wargs == SelectSeq(writeable_arguments(crate, call.function),
                           LAMBDA i : call.arguments[i + 1].some)
        writeables == [k \in DOMAIN wargs |-> call.arguments[wargs[k] + 1].local]
                          \o ReturnSeq(call)
        reads == ArgLocalSeq(call)
        forWrite(acc, write) ==
            acc \o [k \in DOMAIN SelectSeq(reads, LAMBDA r : r # write) |->
                      Equality_new(
                          Term_add_unknown(Term_new_base(GlobalLocal_at_root(write))),
                          Term_new_base(GlobalLocal_at_root(
                              SelectSeq(reads, LAMBDA r : r # write)[k])))]
    IN FoldSeq(forWrite, <<>>, writeables)

\* the filter_map that selects the call nodes to inline or drop and, as a
\* side effect, extends the equations for all others
InlineTarget(n, action) == [idx |-> n, action |-> action, def_id |-> n.fn]

\* cfg!(debug_assertions): whether the analysis was built with debug
\* assertions (the dev and test profiles) or without (the release profile)
debug_assertions == input.debug_assertions

\* InlineAction::InlineAsyncClosure: the generator named by the type of the
\* last argument of the from_generator call. The expect()s and the
\* unreachable!() panic when the call has no argument, when the argument is a
\* constant, and when its type is not a generator; debug_assert!(args
\* .is_empty()) panics in a build with debug assertions when the call has an
\* argument before the closure; closure_fn.as_local().unwrap() panics when
\* the generator is not of this crate. (An argument of a call is a local
\* here, so that debug_assert!(closure.projection.is_empty()) holds.)
AsyncTarget_panics(crate, n) ==
    LET args == get_call(crate, n.loc).arguments
    IN \/ args = <<>>
       \/ ~Last(args).some
       \/ debug_assertions /\ Len(args) > 1
       \/ <<outermost(n.loc)[1], Last(args).local>> \notin DOMAIN crate.generators
       \/ ~as_local(crate, closure_fn(crate, outermost(n.loc)[1], Last(args).local))

AsyncTarget(crate, n) ==
    IF AsyncTarget_panics(crate, n) THEN Panicked
    ELSE
    [idx |-> n, action |-> "InlineAsyncClosure",
     def_id |-> closure_fn(crate, outermost(n.loc)[1],
                           Last(get_call(crate, n.loc).arguments).local)]

SelectTargets(crate, ctrl, g) ==
    LET one(acc, n) ==
            IF acc.panicked \/ n.kind # "Call" THEN acc
            ELSE IF ctrl.recursive /\ as_local(crate, n.fn) /\ should_inline(crate, n.fn)
                 THEN [acc EXCEPT !.targets = Append(@, InlineTarget(n, "SimpleInline"))]
            ELSE IF ctrl.recursive /\ n.fn = FromGenerator
                 THEN IF AsyncTarget_panics(crate, n) THEN [acc EXCEPT !.panicked = TRUE]
                      ELSE [acc EXCEPT !.targets = Append(@, AsyncTarget(crate, n))]
            ELSE IF ctrl.recursive /\ n.fn = FuturePoll /\ ctrl.drop_poll
                 THEN [acc EXCEPT !.targets = Append(@, InlineTarget(n, "Drop"))]
            ELSE IF AbstractionEquations_panics(crate, get_call(crate, n.loc))
                 THEN [acc EXCEPT !.panicked = TRUE]
            ELSE [acc EXCEPT !.eqs = @ \o AbstractionEquations(crate, get_call(crate, n.loc))]
    IN FoldSeq(one, [targets |-> <<>>, eqs |-> g.equations, panicked |-> FALSE], g.nodes)

----------------------------------------------------------------------------
(* Inliner::perform_subfunction_inlining, one target at a time *)

\* the assertion InlineAction::Drop makes on every edge into the poll call:
\* an odd number of data 0, data 1 and control
DropAssertion(g, idx) ==
    \A e \in Incoming(g, idx) : ((0 \in e.w.data) # (1 \in e.w.data)) # e.w.control

\* InlineAction::Drop panics when the assertion fails, and when the poll
\* call returns into a local and its first argument is missing or a constant
DropCall_panics(crate, g, idx) ==
    \/ ~DropAssertion(g, idx)
    \/ LET call == get_call(crate, idx.loc)
       IN /\ call.return_to # NoLocal
          /\ (call.arguments = <<>> \/ ~call.arguments[1].some)

\* InlineAction::Drop: bridge the future (argument 0) of a poll call to the
\* consumers of the poll and remove the call
DropCall(crate, g, idx) ==
    IF DropCall_panics(crate, g, idx) THEN Panicked
    ELSE
    LET incoming_closure == {e.from : e \in {x \in Incoming(g, idx) : 0 \in x.w.data}}
        outgoing == Outgoing(g, idx)
        pairs == {<<f, o>> : f \in incoming_closure, o \in outgoing}
        bridge(acc, pr) == add_weighted_edge(acc, pr[1], pr[2].to, pr[2].w)
        g1 == FoldSet(bridge, g, pairs)
        call == get_call(crate, idx.loc)
        g2 == IF call.return_to # NoLocal
              THEN [g1 EXCEPT !.equations = Append(@,
                       Equality_new(Term_new_base(GlobalLocal_at_root(call.return_to)),
                                    Term_new_base(GlobalLocal_at_root(call.arguments[1].local))))]
              ELSE g1
    IN remove_node(g2, idx)

\* a relativization that leaves the bases of the callee where they are
relativize_eqs_in_place(equations, here) == equations

\* Inliner::relativize_eqs
relativize_eqs(equations, here) ==
    [i \in DOMAIN equations |->
        map_bases(equations[i],
                  LAMBDA base : GlobalLocal_relative(base.local,
                      IF base.location = NoLoc THEN GliAt_as_global_location(here)
                      ELSE GliAt_relativize(here, base.location)))]

\* the index call.arguments[a] panics for an input of the callee's signature
\* that the call has no argument for
ParameterEquations_panics(call, num_args) == num_args > Len(call.arguments)

\* the equations actual parameter == formal parameter, and return_to == return place
ParameterEquations(call, num_args, root_location) ==
    IF ParameterEquations_panics(call, num_args) THEN Panicked
    ELSE
    LET some == SelectSeq(Upto(num_args), LAMBDA a : call.arguments[a + 1].some)
        pairs == [k \in DOMAIN some |->
                     <<call.arguments[some[k] + 1].local, arg_num_to_local(some[k])>>]
                   \o [k \in DOMAIN ReturnSeq(call) |-> <<ReturnSeq(call)[k], RETURN_PLACE>>]
    IN [k \in DOMAIN pairs |->
          Equality_new(Term_new_base(GlobalLocal_at_root(pairs[k][1])),
                       Term_new_base(GlobalLocal_relative(pairs[k][2], root_location)))]

\* the equation closure == first formal parameter, and return_to == return
\* place, of an inlined async closure
ClosureEquations(call, root_location) ==
    LET pairs == <<<<Last(call.arguments).local, arg_num_to_local(0)>>>>
                   \o [k \in DOMAIN ReturnSeq(call) |-> <<ReturnSeq(call)[k], RETURN_PLACE>>]
    IN [k \in DOMAIN pairs |->
          Equality_new(Term_new_base(GlobalLocal_at_root(pairs[k][1])),
                       Term_new_base(GlobalLocal_relative(pairs[k][2], root_location)))]

\* an argument map that finds no source for any input
argument_map_none(g, idx, num_args, t) == {}

\* an argument map that hands every source of the call to every input
argument_map_any(g, idx, num_args, t) == {e.from : e \in Incoming(g, idx)}

\* an argument map that looks up the sources of the following input
argument_map_shifted(g, idx, num_args, t) ==
    {e.from : e \in {x \in Incoming(g, idx) : Data(t.idx + 1) \in into_types(x.w)}}

\* the map has the keys Data(0) .. Data(num_args - 1) and Control; filling it
\* panics (get_mut(..).unwrap()) on an edge into the call that carries the
\* data bit of an input the callee does not have
argument_map_panics(g, idx, num_args) ==
    \E e \in Incoming(g, idx) : \E bit \in e.w.data : bit >= num_args

\* argument_map: the callers' nodes that feed each input of the call idx;
\* looking up a key the map does not have yields nothing
argument_map(g, idx, num_args, t) ==
    IF argument_map_panics(g, idx, num_args) THEN Panicked
    ELSE {e.from : e \in {x \in Incoming(g, idx) : t \in into_types(x.w)}}

\* the arm Node::Return => unreachable!() of connect_to
connect_to_panics(source) == source.kind = "Return"

\* the closure connect_to; acc holds the graph and the queue for pruning
connect_to(acc, g_idx, idx, num_args, here, source, target, weight, pruning_required) ==
    LET add(a, src, reg) ==
            [a EXCEPT !.g = add_weighted_edge(@, src, target, weight),
                      !.queue = IF reg THEN @ \cup {<<src, target>>} ELSE @]
        addTrue(a, src) == add(a, src, TRUE)
    IN IF connect_to_panics(source) THEN Panicked
       ELSE IF source.kind = "Call"
       THEN add(acc, CallNode(GliAt_relativize(here, source.loc), source.fn),
                pruning_required)
       ELSE FoldSet(addTrue, acc, argument_map(g_idx, idx, num_args, Data(source.arg)))

\* what the body of the loop over the targets panics on before it walks the
\* nodes of the callee
SpliceSetup_panics(crate, body_id, g, idx) ==
    LET is_async_closure == idx.fn = FromGenerator
        num_args == IF is_async_closure THEN 1 ELSE crate.inputs[idx.fn]
        call == crate.bodies[body_id].calls[outermost_location(idx.loc)]
    IN \/ argument_map_panics(g, idx, num_args)
       \/ ~is_async_closure /\ ParameterEquations_panics(call, num_args)

\* the body of the loop over the targets for a callee whose graph is at hand:
\* every outcome the loop can have. The nodes of the callee are walked in
\* their order; the edges into a node come in the order of its adjacency
\* list, which goes back to the iteration order of hash sets, so every order
\* is taken. An outcome is the graph and the queue for pruning, or a panic.
Splice(crate, body_id, g, queue, idx, grw_to_inline) ==
    LET root_location == idx.loc
        is_async_closure == idx.fn = FromGenerator
        num_args == IF is_async_closure THEN 1 ELSE crate.inputs[idx.fn]
        call == crate.bodies[body_id].calls[outermost_location(root_location)]
        here == Link(body_id, outermost_location(root_location))
        failed == [g |-> g, queue |-> queue, panicked |-> TRUE]
        g0 == [g EXCEPT
                 !.num_inlined = @ + 1 + grw_to_inline.num_inlined,
                 !.max_call_stack_depth = Max(@, grw_to_inline.max_call_stack_depth + 1),
                 !.equations = @ \o relativize_eqs(grw_to_inline.equations, here)
                                 \o (IF is_async_closure
                                     THEN ClosureEquations(call, root_location)
                                     ELSE ParameterEquations(call, num_args, root_location))]
        oneNode(accs, old) ==
            LET new == map_call(old, LAMBDA l : GliAt_relativize(here, l))
                oneEdge(a, edge) ==
                    IF a.panicked THEN a
                    ELSE IF new.kind = "Call"
                    THEN IF connect_to_panics(edge.from) THEN failed
                         ELSE connect_to(a, g, idx, num_args, here, edge.from, new,
                                         edge.w, FALSE)
                    ELSE LET toTarget(b, out) ==
                                 IF b.panicked \/ connect_to_panics(edge.from) THEN failed
                                 ELSE connect_to(b, g, idx, num_args, here, edge.from,
                                                 out.to, out.w, TRUE)
                         IN FoldSet(toTarget, a, Outgoing(a.g, idx))
            IN UNION {{FoldSeq(oneEdge,
                               IF acc.panicked THEN acc
                               ELSE [acc EXCEPT !.g = add_node(@, new)], edges) :
                          edges \in Perms(Incoming(grw_to_inline, old))} : acc \in accs}
    IN IF SpliceSetup_panics(crate, body_id, g, idx) THEN {failed}
       ELSE {IF done.panicked THEN failed
             ELSE [done EXCEPT !.g = remove_node(@, idx)] :
                done \in FoldSeq(oneNode,
                                 {[g |-> g0, queue |-> queue, panicked |-> FALSE]},
                                 grw_to_inline.nodes)}

----------------------------------------------------------------------------
(* Removal of inconsequential calls *)

\* no_significant_edge: true when n may be removed under the policy
no_significant_edge(g, n, policy) ==
    IF ~(\E e \in Incoming(g, n) : e.w.data # {}) THEN FALSE
    ELSE IF \E e \in Outgoing(g, n) : e.w.control /\ ~remove_ctrl_flow_source(policy)
         THEN FALSE
         ELSE \E e \in Outgoing(g, n) : e.w.data # {} \/ e.w.control

\* a filter that does not ask whether the callee is semantically meaningful
InconsequentialUnlabelled(crate, ctrl, g, n) ==
    /\ n.kind = "Call"
    /\ is_at_root(n.loc)
    /\ (as_local(crate, n.fn) => ~should_inline(crate, n.fn))
    /\ no_significant_edge(g, n, ctrl.remove)

\* a filter that does not spare the construction of a generator
InconsequentialGenerator(crate, ctrl, g, n) ==
    /\ n.kind = "Call"
    /\ is_at_root(n.loc)
    /\ ~is_semantically_meaningful(crate, n.fn)
    /\ (as_local(crate, n.fn) => ~should_inline(crate, n.fn))
    /\ no_significant_edge(g, n, ctrl.remove)

\* the filter of remove_inconsequential_calls
Inconsequential(crate, ctrl, g, n) ==
    /\ n.kind = "Call"
    /\ is_at_root(n.loc)
    /\ ~is_semantically_meaningful(crate, n.fn)
    /\ n.fn # FromGenerator
    /\ (as_local(crate, n.fn) => ~should_inline(crate, n.fn))
    /\ no_significant_edge(g, n, ctrl.remove)

\* a removal that bridges the first of the removed calls only
remove_inconsequential_calls_unbridged(crate, ctrl, g) ==
    LET candidates == SelectSeq(g.nodes, LAMBDA n : Inconsequential(crate, ctrl, g, n))
        one(acc, n) ==
            LET pairs == IF n = candidates[1]
                         THEN {<<f, o>> : f \in {e.from : e \in Incoming(acc, n)},
                                          o \in Outgoing(acc, n)}
                         ELSE {}
                bridge(a, pr) == add_weighted_edge(a, pr[1], pr[2].to, pr[2].w)
            IN remove_node(FoldSet(bridge, acc, pairs), n)
    IN FoldSeq(one, g, candidates)

remove_inconsequential_calls(crate, ctrl, g) ==
    LET candidates == SelectSeq(g.nodes, LAMBDA n : Inconsequential(crate, ctrl, g, n))
        one(acc, n) ==
            LET pairs == {<<f, o>> : f \in {e.from : e \in Incoming(acc, n)},
                                     o \in Outgoing(acc, n)}
                bridge(a, pr) == add_weighted_edge(a, pr[1], pr[2].to, pr[2].w)
            IN remove_node(FoldSet(bridge, acc, pairs), n)
    IN FoldSeq(one, g, candidates)

----------------------------------------------------------------------------
(* The equation solver (algebra::solve_with) *)

\* bound on the length of the projection stack the solver explores
MaxProj == 2

\* an equality may be used in both directions
Oriented(eqs) ==
    {<<eqs[i].lhs, eqs[i].rhs>> : i \in DOMAIN eqs}
        \cup {<<eqs[i].rhs, eqs[i].lhs>> : i \in DOMAIN eqs}

\* two projection elements unify when equal or when either is unknown
Unifies(a, b) == a = b \/ a = "unknown" \/ b = "unknown"

PrefixUnifies(p, q) ==
    Len(p) <= Len(q) /\ \A i \in 1..Len(p) : Unifies(p[i], q[i])

\* rewriting term t with the equality l == r: l must describe t or a place
\* inside of t, or t a place that l reaches through unknown projections only
Rewrite(t, l, r) ==
    IF l.base # t.base THEN {}
    ELSE IF PrefixUnifies(l.proj, t.proj)
         THEN {[base |-> r.base,
                proj |-> r.proj \o SubSeq(t.proj, Len(l.proj) + 1, Len(t.proj))]}
    ELSE IF PrefixUnifies(t.proj, l.proj)
              /\ \A i \in (Len(t.proj) + 1)..Len(l.proj) : l.proj[i] = "unknown"
         THEN {[base |-> r.base, proj |-> r.proj]}
    ELSE {}

RECURSIVE Saturate(_, _, _)
Saturate(seen, frontier, pairs) ==
    IF frontier = {} THEN seen
    ELSE LET next == {u \in UNION {Rewrite(t, pr[1], pr[2]) : t \in frontier, pr \in pairs} :
                         Len(u.proj) <= MaxProj} \ seen
         IN Saturate(seen \cup next, next, pairs)

\* solve_with, reduced to whether on_found is invoked at all: some term
\* equal to from has a base that is a target
solve_with(equations, from, targets) ==
    \E t \in Saturate({Term_new_base(from)}, {Term_new_base(from)}, Oriented(equations)) :
        t.base \in targets

----------------------------------------------------------------------------
(* Pruning of impossible edges *)

edge_has_been_pruned_before(from, to) ==
    IF to.kind = "Call" /\ from.kind = "Call" THEN outermost(to.loc) = outermost(from.loc)
    ELSE IF to.kind = "Call" THEN is_at_root(to.loc)
    ELSE IF from.kind = "Call" THEN is_at_root(from.loc)
    ELSE TRUE

find_prunable_edges(g) ==
    {<<e.from, e.to>> : e \in {x \in g.edges : ~edge_has_been_pruned_before(x.from, x.to)}}

\* place a local of the function that holds call site loc
LocalAt(loc, local) ==
    IF parent(loc) # NoLoc THEN GlobalLocal_relative(local, parent(loc))
    ELSE GlobalLocal_at_root(local)

\* node_to_local panics for a call that has no argument idx (the index) or
\* a constant there (the unwrap)
node_to_local_panics(crate, node, idx) ==
    /\ node.kind = "Call"
    /\ LET arguments == get_call(crate, node.loc).arguments
       IN idx >= Len(arguments) \/ ~arguments[idx + 1].some

\* Inliner::node_to_local
node_to_local(crate, node, idx) ==
    IF node_to_local_panics(crate, node, idx) THEN Panicked
    ELSE CASE node.kind = "Return" -> GlobalLocal_at_root(RETURN_PLACE)
           [] node.kind = "Argument" -> GlobalLocal_at_root(arg_num_to_local(node.arg))
           [] OTHER -> LocalAt(node.loc, get_call(crate, node.loc).arguments[idx + 1].local)

\* the places the source of an edge may have written
PruneTargets(crate, from) ==
    IF from.kind = "Argument" THEN {GlobalLocal_at_root(from.arg + 1)}
    ELSE LET call == get_call(crate, from.loc)
         IN {LocalAt(from.loc, l) : l \in argument_locals(call) \cup Range(ReturnSeq(call))}

\* pruning that keeps a bit only when the solver finds no connection
BitSurvivesInverted(crate, equations, from, to, idx) ==
    ~solve_with(equations, node_to_local(crate, to, idx), PruneTargets(crate, from))

\* whether data bit idx of edge from -> to survives pruning
BitSurvives(crate, equations, from, to, idx) ==
    solve_with(equations, node_to_local(crate, to, idx), PruneTargets(crate, from))

\* a pruning of one edge that drops the control flag of what it touches
PruneEdgeAndControl(crate, equations, acc, from, to) ==
    IF ~HasEdge(acc, from, to) THEN acc
    ELSE LET weight == edge_weight(acc, from, to)
             kept == [weight EXCEPT !.control = FALSE, !.data =
                         {idx \in @ : BitSurvives(crate, equations, from, to, idx)}]
         IN IF Edge_is_empty(kept) THEN remove_edge(acc, from, to)
            ELSE SetEdge(acc, from, to, kept)

\* the pruning of one edge panics on a data bit that node_to_local panics
\* on, and on a data edge that leaves the return node (unreachable!())
PruneEdge_panics(crate, acc, from, to) ==
    /\ HasEdge(acc, from, to)
    /\ \E idx \in edge_weight(acc, from, to).data :
          node_to_local_panics(crate, to, idx) \/ from.kind = "Return"

\* the pruning of one edge
PruneEdge(crate, equations, acc, from, to) ==
    IF ~HasEdge(acc, from, to) THEN acc
    ELSE IF PruneEdge_panics(crate, acc, from, to) THEN Panicked
    ELSE LET weight == edge_weight(acc, from, to)
             kept == [weight EXCEPT !.data =
                         {idx \in @ : BitSurvives(crate, equations, from, to, idx)}]
         IN IF Edge_is_empty(kept) THEN remove_edge(acc, from, to)
            ELSE SetEdge(acc, from, to, kept)

\* a pruning that stops after the first edge it changes
prune_stopping_early(crate, g, edges_to_prune) ==
    LET changing == {pr \in edges_to_prune :
                       PruneEdge(crate, g.equations, g, pr[1], pr[2]) # g}
    IN IF changing = {} THEN g
       ELSE LET pr == CHOOSE x \in changing : TRUE
            IN PruneEdge(crate, g.equations, g, pr[1], pr[2])

\* the edges of the set are pruned one by one, none of them twice, so that
\* the loop panics when the pruning of one of them does
prune_impossible_edges_panics(crate, g, edges_to_prune) ==
    \E pr \in edges_to_prune : PruneEdge_panics(crate, g, pr[1], pr[2])

prune_impossible_edges(crate, g, edges_to_prune) ==
    LET one(acc, pr) == PruneEdge(crate, g.equations, acc, pr[1], pr[2])
    IN IF prune_impossible_edges_panics(crate, g, edges_to_prune) THEN Panicked
       ELSE FoldSet(one, g, edges_to_prune)

\* the choice of edges to prune in inline_graph
EdgesToPrune(ctrl, g, queue_for_pruning) ==
    CASE ctrl.pruning = "NotPreviouslyPrunedEdges" -> find_prunable_edges(g)
      [] ctrl.pruning = "NewEdgesNotPreviouslyPruned" ->
           {pr \in queue_for_pruning : ~edge_has_been_pruned_before(pr[1], pr[2])}
      [] OTHER -> queue_for_pruning

use_pruning(ctrl) == ctrl.pruning # "Off"

\* the tail of inline_graph, after perform_subfunction_inlining
RemoveStep(crate, ctrl, g) ==
    IF is_enabled(ctrl.remove) THEN remove_inconsequential_calls(crate, ctrl, g) ELSE g

PruneStep_panics(crate, ctrl, g, queue_for_pruning) ==
    /\ use_pruning(ctrl)
    /\ prune_impossible_edges_panics(crate, g, EdgesToPrune(ctrl, g, queue_for_pruning))

PruneStep(crate, ctrl, g, queue_for_pruning) ==
    IF use_pruning(ctrl)
    THEN prune_impossible_edges(crate, g, EdgesToPrune(ctrl, g, queue_for_pruning))
    ELSE g

----------------------------------------------------------------------------
(* Inliner::to_call_only_flow *)

\* the location mk_arg hands out for argument a of the entry point
ArgLocation(entry, a) == globalize_location(0 - (a + 1), entry)

SourceLocation(entry, n) == IF n.kind = "Call" THEN n.loc ELSE ArgLocation(entry, n.arg)

\* a collection of dependencies that counts the arguments from one
get_dependencies_from_one(entry, g, n) ==
    LET inc == Incoming(g, n)
        used == UNION {e.w.data : e \in inc}
        len == IF used = {} THEN 0 ELSE (CHOOSE m \in used : \A k \in used : k <= m) + 2
    IN [input_deps |-> [i \in 1..len |->
                          {SourceLocation(entry, e.from) : e \in {x \in inc : (i - 2) \in x.w.data}}],
        ctrl_deps |-> {SourceLocation(entry, e.from) : e \in {x \in inc : x.w.control}}]

get_dependencies(entry, g, n) ==
    LET inc == Incoming(g, n)
        used == UNION {e.w.data : e \in inc}
        len == IF used = {} THEN 0 ELSE (CHOOSE m \in used : \A k \in used : k <= m) + 1
    IN [input_deps |-> [i \in 1..len |->
                          {SourceLocation(entry, e.from) : e \in {x \in inc : (i - 1) \in x.w.data}}],
        ctrl_deps |-> {SourceLocation(entry, e.from) : e \in {x \in inc : x.w.control}}]

\* an extraction that has a key only for the calls that depend on something
to_call_only_flow_of_dependents(entry, g) ==
    [location_dependencies |->
        {[loc |-> n.loc, deps |-> get_dependencies(entry, g, n)] :
            n \in {m \in Range(g.nodes) : m.kind = "Call" /\ Incoming(g, m) # {}}},
     return_dependencies |->
        IF HasNode(g, ReturnNode)
        THEN UNION Range(get_dependencies(entry, g, ReturnNode).input_deps)
        ELSE {}]

\* get_dependencies reaches unreachable!() on an edge from the return node
get_dependencies_panics(g, n) ==
    \E e \in Incoming(g, n) : e.from.kind = "Return" /\ into_types(e.w) # {}

\* the assert! on the insert into location_dependencies fails when two call
\* nodes have the same location
duplicate_location(g) ==
    \E n, m \in Range(g.nodes) :
        n.kind = "Call" /\ m.kind = "Call" /\ n # m /\ n.loc = m.loc

\* get_dependencies is called for the call nodes and for the return node
to_call_only_flow_panics(g) ==
    \/ \E n \in Range(g.nodes) :
         n.kind \in {"Call", "Return"} /\ get_dependencies_panics(g, n)
    \/ duplicate_location(g)

to_call_only_flow(entry, g) ==
    IF to_call_only_flow_panics(g) THEN Panicked
    ELSE
    [location_dependencies |->
        {[loc |-> n.loc, deps |-> get_dependencies(entry, g, n)] :
            n \in {m \in Range(g.nodes) : m.kind = "Call"}},
     return_dependencies |->
        IF HasNode(g, ReturnNode)
        THEN UNION Range(get_dependencies(entry, g, ReturnNode).input_deps)
        ELSE {}]

----------------------------------------------------------------------------
(* RecursionBreakingCache *)

Absent == [state |-> "Absent", graph |-> EmptyGraph]
InProgress == [state |-> "InProgress", graph |-> EmptyGraph]
Built(g) == [state |-> "Built", graph |-> g]

\* a cache that takes an entry for present only once its value is stored
contains_key_built(memo, key) == memo[key].state = "Built"

\* HashMap::contains_key on the cache
contains_key(memo, key) == memo[key].state # "Absent"

\* a cache that computes again whatever it holds
get_evicting(memo, key) ==
    IF memo[key].state = "InProgress" THEN "None" ELSE "Compute"

\* RecursionBreakingCache::get up to the call of compute: "Compute" when the
\* key is new, else what the stored entry yields
get(memo, key) ==
    IF ~contains_key(memo, key) THEN "Compute"
    ELSE IF memo[key].state = "Built" THEN "Some" ELSE "None"

\* a cache that stores no placeholder
insert_no_placeholder(memo, key) == memo

\* the insert of the placeholder before compute runs
insert_placeholder(memo, key) == [memo EXCEPT ![key] = InProgress]

\* a cache that does not store the computed value
insert_no_value(memo, key, g) == memo

\* the insert of the computed value
insert_value(memo, key, g) == [memo EXCEPT ![key] = Built(g)]

----------------------------------------------------------------------------
(* The inliner as a state machine *)

crate == input.crate
ctrl == input.ctrl

\* inline_graph up to the first target: the graph of the body and the
\* targets selected in it, or the panic of the selection
NewFrame(body_id, ord) ==
    LET g0 == from_body(body_id, crate.bodies[body_id], ord)
        sel == SelectTargets(crate, ctrl, g0)
    IN [body_id |-> body_id,
        g |-> [g0 EXCEPT !.equations = sel.eqs],
        targets |-> sel.targets,
        queue |-> {},
        panicked |-> sel.panicked]

Top == stack[Len(stack)]
ReplaceTop(f) == [stack EXCEPT ![Len(stack)] = f]

\* the `continue` of the loop over the targets
SkipTarget(f) == [f EXCEPT !.targets = Tail(@)]

NoGet == [key |-> "", found |-> "Absent", result |-> "Init", tick |-> FALSE]
GetCall(key, result) ==
    [key |-> key, found |-> inline_memo[key].state, result |-> result,
     tick |-> ~lastGet.tick]

\* the older pipeline (ana.rs) is not running
NoShrink == [prog |-> "", use_reachable |-> FALSE, remaining |-> {}, flow |-> {},
             loc |-> <<>>, input_deps |-> <<>>]
NoDfs == [running |-> FALSE, queue |-> <<>>, below |-> {}, seen |-> {}, deps |-> {}]

NoPrune == [body |-> "", before |-> EmptyGraph, after |-> EmptyGraph, edges |-> {}]

\* a fresh Inliner (Inliner::new) for one of the given crates
\* the builds of the analysis that differ on a crate: the build decides
\* nothing but the debug_assert! of the from_generator arm, which is reached
\* for a from_generator call with an argument before the closure; on every
\* other crate the two builds take the same steps and one stands for both
Builds(c) ==
    IF \E f \in DOMAIN c.bodies : \E p \in DOMAIN c.bodies[f].calls :
          /\ c.bodies[f].calls[p].function = FromGenerator
          /\ Len(c.bodies[f].calls[p].arguments) > 1
    THEN BOOLEAN ELSE {TRUE}

InlinerStart(crates) ==
    /\ \E c \in crates, k \in Ctrls : \E d \in Builds(c) :
         input = [crate |-> c, ctrl |-> k, debug_assertions |-> d]
    /\ inline_memo = [f \in DOMAIN input.crate.bodies |-> Absent]
    /\ stack = <<>>
    /\ lastGet = NoGet
    /\ computed = [f \in DOMAIN input.crate.bodies |-> 0]
    /\ built = [f \in DOMAIN input.crate.bodies |-> Absent]
    /\ requests = 0
    /\ trace = <<>>
    /\ prev = <<>>
    /\ runs = 1
    /\ broken = {}
    /\ lastPrune = NoPrune
    /\ clock = FALSE
    /\ shrink = NoShrink
    /\ dfs = NoDfs
    /\ unwound = {}
    /\ interner = NoInterner

Init == InlinerStart(Crates)

\* whether compute may be started for key (the cap is never reached)
CanStart(key) == computed[key] < MaxComputes

\* compute starts for key: placeholder stored, inline_graph entered
StartCompute(key) ==
    /\ CanStart(key)
    /\ \E ord \in Orders(crate.bodies[key]) : stack' = Append(stack, NewFrame(key, ord))
    /\ inline_memo' = insert_placeholder(inline_memo, key)
    /\ computed' = [computed EXCEPT ![key] = @ + 1]
    /\ lastGet' = GetCall(key, "Computing")

\* the analysis asks for the inlined graph of an entry point
Request(p) ==
    /\ stack = <<>>
    /\ requests < MaxRequests
    /\ requests' = requests + 1
    /\ \/ /\ get(inline_memo, p) = "Compute"
          /\ StartCompute(p)
          /\ UNCHANGED trace
       \/ /\ get(inline_memo, p) # "Compute"
          /\ lastGet' = GetCall(p, get(inline_memo, p))
          /\ trace' = IF get(inline_memo, p) = "Some"
                      THEN Append(trace, [entry |-> p,
                                          flow |-> to_call_only_flow(p, inline_memo[p].graph)])
                      ELSE trace
          /\ UNCHANGED <<inline_memo, stack, computed>>
    /\ UNCHANGED <<interner, unwound, shrink, dfs, input, built, prev, runs, broken, lastPrune, clock>>

\* a target without a body: get_inlined_graph_by_def_id answers None
\* without consulting the cache
SkipNoBody ==
    /\ clock' = ~clock
    /\ stack # <<>> /\ Top.targets # <<>>
    /\ Head(Top.targets).action \in {"SimpleInline", "InlineAsyncClosure"}
    /\ ~maybe_body_owned_by(crate, Head(Top.targets).def_id)
    /\ ~Top.panicked
    /\ stack' = ReplaceTop(SkipTarget(Top))
    /\ UNCHANGED <<interner, unwound, shrink, dfs, input, inline_memo, lastGet, computed, built, requests, trace, prev,
                   runs, broken, lastPrune>>

\* InlineAction::Drop
Drop ==
    /\ clock' = ~clock
    /\ stack # <<>> /\ Top.targets # <<>>
    /\ Head(Top.targets).action = "Drop"
    /\ ~Top.panicked
    /\ ~DropCall_panics(crate, Top.g, Head(Top.targets).idx)
    /\ stack' = ReplaceTop([SkipTarget(Top) EXCEPT
                               !.g = DropCall(crate, @, Head(Top.targets).idx)])
    /\ UNCHANGED <<interner, unwound, shrink, dfs, input, inline_memo, lastGet, computed, built, requests, trace, prev,
                   runs, broken, lastPrune>>

InlinableTarget ==
    /\ stack # <<>> /\ Top.targets # <<>>
    /\ ~Top.panicked
    /\ Head(Top.targets).action \in {"SimpleInline", "InlineAsyncClosure"}
    /\ maybe_body_owned_by(crate, Head(Top.targets).def_id)

\* the callee has not been visited: its graph is computed first
Descend ==
    /\ clock' = ~clock
    /\ InlinableTarget
    /\ get(inline_memo, Head(Top.targets).def_id) = "Compute"
    /\ Len(stack) < MaxDepth
    /\ StartCompute(Head(Top.targets).def_id)
    /\ UNCHANGED <<interner, unwound, shrink, dfs, input, built, requests, trace, prev, runs, broken, lastPrune>>

\* the callee is being computed further up the stack: the call stays
BreakRecursion ==
    /\ clock' = ~clock
    /\ InlinableTarget
    /\ get(inline_memo, Head(Top.targets).def_id) = "None"
    /\ lastGet' = GetCall(Head(Top.targets).def_id, "None")
    /\ stack' = ReplaceTop(SkipTarget(Top))
    /\ broken' = broken \cup {<<Top.body_id, Head(Top.targets).idx>>}
    /\ UNCHANGED <<interner, unwound, shrink, dfs, input, inline_memo, computed, built, requests, trace, prev, runs,
                   lastPrune>>

\* the callee's graph is at hand: splice it in
InlineCallee ==
    /\ clock' = ~clock
    /\ InlinableTarget
    /\ get(inline_memo, Head(Top.targets).def_id) = "Some"
    /\ lastGet' = GetCall(Head(Top.targets).def_id, "Some")
    /\ LET t == Head(Top.targets)
       IN \E r \in Splice(crate, Top.body_id, Top.g, Top.queue, t.idx,
                          inline_memo[t.def_id].graph) :
              /\ ~r.panicked
              /\ stack' = ReplaceTop([SkipTarget(Top) EXCEPT !.g = r.g, !.queue = r.queue])
    /\ UNCHANGED <<interner, unwound, shrink, dfs, input, inline_memo, computed, built, requests, trace, prev, runs,
                   broken, lastPrune>>

\* all targets handled: removal, pruning, and the graph is stored and returned
Finish ==
    /\ clock' = ~clock
    /\ stack # <<>> /\ Top.targets = <<>>
    /\ ~Top.panicked
    /\ ~PruneStep_panics(crate, ctrl, RemoveStep(crate, ctrl, Top.g), Top.queue)
    /\ LET g1 == RemoveStep(crate, ctrl, Top.g)
           g2 == PruneStep(crate, ctrl, g1, Top.queue)
       IN /\ inline_memo' = insert_value(inline_memo, Top.body_id, g2)
          /\ built' = IF built[Top.body_id].state = "Absent"
                      THEN [built EXCEPT ![Top.body_id] = Built(g2)] ELSE built
          /\ lastPrune' = [body |-> Top.body_id, before |-> g1, after |-> g2,
                           edges |-> IF use_pruning(ctrl)
                                     THEN EdgesToPrune(ctrl, g1, Top.queue) ELSE {}]
          /\ trace' = IF Len(stack) = 1
                      THEN Append(trace, [entry |-> Top.body_id,
                                          flow |-> to_call_only_flow(Top.body_id, g2)])
                      ELSE trace
    /\ lastGet' = [lastGet EXCEPT !.key = Top.body_id, !.found = "Absent",
                                  !.result = "Some"]
    /\ stack' = Front(stack)
    /\ UNCHANGED <<interner, unwound, shrink, dfs, input, computed, requests, prev, runs, broken>>

\* the inliner is run again on the same input, with fresh caches
Restart ==
    /\ stack = <<>>
    /\ trace # <<>>
    /\ runs < MaxRuns
    /\ runs' = runs + 1
    /\ prev' = trace
    /\ trace' = <<>>
    /\ inline_memo' = [f \in DOMAIN crate.bodies |-> Absent]
    /\ computed' = [f \in DOMAIN crate.bodies |-> 0]
    /\ built' = [f \in DOMAIN crate.bodies |-> Absent]
    /\ requests' = 0
    /\ broken' = {}
    /\ lastGet' = NoGet
    /\ lastPrune' = NoPrune
    /\ clock' = FALSE
    /\ unwound' = {}
    /\ UNCHANGED <<interner, shrink, dfs, input, stack>>

Next ==
    \/ \E p \in crate.entries : Request(p)
    \/ SkipNoBody
    \/ Drop
    \/ Descend
    \/ BreakRecursion
    \/ InlineCallee
    \/ Finish
    \/ Restart

Spec == Init /\ [][Next]_vars

\* the steps the inliner takes on its own, once a request has been made
Step == SkipNoBody \/ Drop \/ Descend \/ BreakRecursion \/ InlineCallee \/ Finish

\* whether the inliner has a step to take: an invocation is active and its
\* next step is not held back by the caps of the model
Runnable ==
    /\ stack # <<>>
    /\ \/ Top.targets = <<>>
       \/ /\ Top.targets # <<>>
          /\ \/ Head(Top.targets).action = "Drop"
             \/ ~maybe_body_owned_by(crate, Head(Top.targets).def_id)
             \/ /\ maybe_body_owned_by(crate, Head(Top.targets).def_id)
                /\ \/ get(inline_memo, Head(Top.targets).def_id) # "Compute"
                   \/ /\ Len(stack) < MaxDepth
                      /\ CanStart(Head(Top.targets).def_id)

\* every step of the inliner, and no other step, advances the clock while
\* an invocation is active
Tick == Runnable /\ clock' = ~clock

\* the inliner is a sequential program: while it has a step to take it
\* takes one
FairSpec == Spec /\ WF_clock(Tick)

----------------------------------------------------------------------------
(* Reading a call-only flow, as the tests do (tests/helpers/mod.rs) *)

\* the dependencies recorded for location n (none when n is not a key)
FlowDeps(fl, n) ==
    IF \E d \in fl.location_dependencies : d.loc = n
    THEN (CHOOSE d \in fl.location_dependencies : d.loc = n).deps
    ELSE [input_deps |-> <<>>, ctrl_deps |-> {}]

\* G::predecessors
predecessors(fl, n) ==
    FlowDeps(fl, n).ctrl_deps \cup UNION Range(FlowDeps(fl, n).input_deps)

\* SerializableCallOnlyFlow::all_locations_iter: the keys of the location
\* dependencies and their control and input dependencies; the return
\* dependencies are not walked
all_locations(fl) ==
    {d.loc : d \in fl.location_dependencies}
        \cup UNION {predecessors(fl, d.loc) : d \in fl.location_dependencies}

\* (Location, BodyId)::get_call_sites and match_
get_call_sites(fl, site) == {l \in all_locations(fl) : Last(l) = site}
match_(site, l) == Last(l) = site

RECURSIVE Backwards(_, _, _)
Backwards(fl, seen, frontier) ==
    IF frontier = {} THEN seen
    ELSE LET next == UNION {predecessors(fl, n) : n \in frontier} \ seen
         IN Backwards(fl, seen \cup next, next)

\* G::connects
connects(fl, from, to) ==
    \E n \in Backwards(fl, get_call_sites(fl, to), get_call_sites(fl, to)) : match_(from, n)

\* G::connects_direct
connects_direct(fl, from, to) ==
    \E t \in get_call_sites(fl, to) : \E l \in predecessors(fl, t) : match_(from, l)

\* dependency set of argument a of the call at location n
InputDeps(fl, n, a) ==
    IF a + 1 \in DOMAIN FlowDeps(fl, n).input_deps THEN FlowDeps(fl, n).input_deps[a + 1] ELSE {}

Flows == {trace[i].flow : i \in DOMAIN trace}

----------------------------------------------------------------------------
(* The recursion breaking cache: C1 - C4 *)

\* a step that calls get on key k
GetStep(k) ==
    /\ lastGet'.tick # lastGet.tick
    /\ lastGet'.result # "Init"
    /\ lastGet'.key = k

\* C1: a request for the inlined graph of a procedure whose memo entry is the
\* None placeholder returns None in that very step: compute is not started
\* again, no invocation is pushed, and the cache is left as it was.
C1_RecursiveRequestReturnsNone ==
    [][\A k \in DOMAIN inline_memo :
          (GetStep(k) /\ inline_memo[k].state = "InProgress")
              => /\ lastGet'.result = "None"
                 /\ inline_memo' = inline_memo
                 /\ computed' = computed
                 /\ Len(stack') = Len(stack)]_vars

\* a get has just been answered None for a procedure that is being computed
C1_Witness ==
    /\ lastGet.result = "None"
    /\ lastGet.found = "InProgress"
    /\ inline_memo[lastGet.key].state = "InProgress"
    /\ \E i \in DOMAIN stack : stack[i].body_id = lastGet.key

\* every call at which recursion was broken is still a Call node of the
\* graph built for the procedure that contains it
BrokenCallsRemain ==
    \A pr \in broken :
        inline_memo[pr[1]].state = "Built"
            => /\ pr[2].kind = "Call"
               /\ HasNode(inline_memo[pr[1]].graph, pr[2])

\* no procedure is entered twice on the stack
StackIsRepetitionFree ==
    \A i, j \in DOMAIN stack : stack[i].body_id = stack[j].body_id => i = j

\* C2: whatever the procedures call, themselves and each other included,
\* every request for an inlined graph returns (the stack of invocations
\* empties again, and never holds a procedure twice), and each call that
\* closed a cycle is still a Call node of the built graph.
C2_RecursionTerminates ==
    /\ (stack # <<>>) ~> (stack = <<>>)
    /\ [](StackIsRepetitionFree /\ BrokenCallsRemain)

\* a request during which recursion was broken has returned with its flow,
\* and the flow has the cycle-closing call as a key
C2_Witness ==
    /\ stack = <<>>
    /\ trace # <<>>
    /\ \E pr \in broken :
          /\ inline_memo[pr[1]].state = "Built"
          /\ \E i \in DOMAIN trace :
                /\ trace[i].entry = pr[1]
                /\ \E d \in trace[i].flow.location_dependencies : d.loc = pr[2].loc

\* C3: once the outermost request has returned, it has returned a built
\* graph, and no procedure is left with the None placeholder; while requests
\* are running the placeholders are exactly the procedures being computed.
C3_NoPlaceholderLeftBehind ==
    /\ \A f \in DOMAIN inline_memo :
          inline_memo[f].state = "InProgress" <=> \E i \in DOMAIN stack : stack[i].body_id = f
    /\ (stack = <<>> /\ requests > 0)
          => /\ lastGet.result = "Some"
             /\ inline_memo[lastGet.key].state = "Built"
             /\ Len(trace) = requests

\* the outermost request has returned after a recursive request was met
C3_Witness ==
    /\ stack = <<>>
    /\ requests > 0
    /\ broken # {}
    /\ lastGet.result = "Some"

\* C4: within a run the memo entry of a procedure only moves from absent to
\* the placeholder and from the placeholder to built; compute is started at
\* most once per procedure; a built entry is never replaced; and requests
\* for the same entry point yield the same flow.
C4_MemoOnlyAdvances ==
    /\ [][runs' = runs =>
            \A f \in DOMAIN inline_memo :
                /\ inline_memo[f].state = "Absent"
                      => inline_memo'[f].state \in {"Absent", "InProgress"}
                /\ inline_memo[f].state = "InProgress"
                      => inline_memo'[f].state \in {"InProgress", "Built"}
                /\ inline_memo[f].state = "Built" => inline_memo'[f] = inline_memo[f]]_vars
    /\ [](\A f \in DOMAIN computed : computed[f] <= 1)
    /\ [](\A f \in DOMAIN built :
             inline_memo[f].state = "Built" => inline_memo[f] = built[f])
    /\ [](\A i, j \in DOMAIN trace : trace[i].entry = trace[j].entry => trace[i] = trace[j])

\* an entry point has been requested twice in one run, computed once
C4_Witness ==
    /\ Len(trace) = 2
    /\ trace[1].entry = trace[2].entry
    /\ computed[trace[1].entry] = 1
    /\ inline_memo[trace[1].entry].state = "Built"

----------------------------------------------------------------------------
(* The call-only flow: C5 - C8 *)

\* C5: two runs of the inliner on the same input that ask for the same entry
\* points in the same order obtain the same call-only flows.
C5_Determinism ==
    \A i \in DOMAIN trace \cap DOMAIN prev :
        (\A j \in 1..i : trace[j].entry = prev[j].entry)
            => trace[i].flow = prev[i].flow

\* the calls of c to an inlinable callee that makes no calls itself
LeafCalls(c) ==
    {p \in DOMAIN crate.bodies[c].calls :
        LET d == crate.bodies[c].calls[p].function
        IN /\ d \in DOMAIN crate.bodies
           /\ should_inline(crate, d)
           /\ DOMAIN crate.bodies[d].calls = {}}

\* the (producer, consumer, argument) triples around the call at p in c:
\* the producer feeds an argument the callee's return value depends on, the
\* consumer takes the callee's return value as its argument j
Bridged(c, p) ==
    LET calls == crate.bodies[c].calls
        d == calls[p].function
        positions == UNION {0..(Len(calls[r].arguments) - 1) : r \in DOMAIN calls}
    IN {<<q, r, j>> \in (DOMAIN calls) \X (DOMAIN calls) \X positions :
          /\ j < Len(calls[r].arguments)
          /\ calls[r].arguments[j + 1].some
          /\ TCall(p) \in calls[r].arguments[j + 1].deps
          /\ \E a \in 0..(Len(calls[p].arguments) - 1) :
                /\ TArg(a) \in crate.bodies[d].return_deps
                /\ calls[p].arguments[a + 1].some
                /\ TCall(q) \in calls[p].arguments[a + 1].deps}

\* the call site of the inlined callee is gone from the flow
Elided(c, p, fl) ==
    globalize_location(p, c) \notin all_locations(fl) \cup fl.return_dependencies

\* the producer of a bridged triple is a direct dependency of its consumer
Connected(c, t, fl) ==
    globalize_location(t[1], c) \in InputDeps(fl, globalize_location(t[2], c), t[3])

\* a call to f stays a call node of the caller's graph when inlining is on:
\* f is not selected for inlining, is not the generator constructor, is not
\* a poll that is dropped, and is labelled or the removal is off
StaysCall(f) ==
    /\ ~(as_local(crate, f) /\ should_inline(crate, f))
    /\ f # FromGenerator
    /\ ~(f = FuturePoll /\ ctrl.drop_poll)
    /\ (is_semantically_meaningful(crate, f) \/ ~is_enabled(ctrl.remove))

\* the locals x and y are the same local or the two sides of an equation
SamePlace(equations, x, y) ==
    \/ x = y
    \/ \E i \in DOMAIN equations : equations[i] \in {LEq(x, y), LEq(y, x)}

\* the bodies hand the producer's return value through the callee to the
\* consumer's argument by plain copies: the producer's destination is the
\* actual argument a, the callee returns its parameter a, and the callee's
\* destination is the consumer's argument
HandedThrough(c, p, t) ==
    LET calls == crate.bodies[c].calls
        d == calls[p].function
    IN /\ calls[t[1]].return_to # NoLocal
       /\ calls[p].return_to # NoLocal
       /\ SamePlace(crate.bodies[c].equations,
                    calls[t[2]].arguments[t[3] + 1].local, calls[p].return_to)
       /\ \E a \in 0..(Len(calls[p].arguments) - 1) :
             /\ TArg(a) \in crate.bodies[d].return_deps
             /\ calls[p].arguments[a + 1].some
             /\ TCall(t[1]) \in calls[p].arguments[a + 1].deps
             /\ SamePlace(crate.bodies[c].equations,
                          calls[p].arguments[a + 1].local, calls[t[1]].return_to)
             /\ SamePlace(crate.bodies[d].equations, RETURN_PLACE, arg_num_to_local(a))

\* C6 as stated: with inlining on, the flow of a caller has no location for
\* its call to an inlinable callee without calls, and every producer of an
\* argument the callee's return value depends on is a direct dependency of
\* every consumer of that return value.
C6_InliningIsTransparent ==
    \A i \in DOMAIN trace :
        ctrl.recursive =>
            \A p \in LeafCalls(trace[i].entry) :
                /\ Elided(trace[i].entry, p, trace[i].flow)
                /\ \A t \in Bridged(trace[i].entry, p) :
                      Connected(trace[i].entry, t, trace[i].flow)

\* C6, amended: with inlining on, the call site of an inlinable callee
\* without calls is gone from the caller's flow; and a producer is a direct
\* dependency of a consumer at the consumer's argument when both stay calls
\* of the graph and either pruning is off or the bodies hand the value
\* through by plain copies.
C6_TransparentUnlessPruned ==
    \A i \in DOMAIN trace :
        ctrl.recursive =>
            LET c == trace[i].entry
                calls == crate.bodies[c].calls
            IN \A p \in LeafCalls(c) :
                  /\ Elided(c, p, trace[i].flow)
                  /\ \A t \in Bridged(c, p) :
                        (/\ StaysCall(calls[t[1]].function)
                         /\ StaysCall(calls[t[2]].function)
                         /\ (~use_pruning(ctrl) \/ HandedThrough(c, p, t)))
                            => Connected(c, t, trace[i].flow)

\* a caller with an inlined leaf callee between a producer and a consumer
\* has been analysed with removal and pruning on, and the producer is
\* connected to the consumer
C6_Witness ==
    /\ ctrl.recursive
    /\ use_pruning(ctrl)
    /\ is_enabled(ctrl.remove)
    /\ \E i \in DOMAIN trace : \E p \in LeafCalls(trace[i].entry) :
          /\ computed[crate.bodies[trace[i].entry].calls[p].function] = 1
          /\ \E t \in Bridged(trace[i].entry, p) :
                /\ StaysCall(crate.bodies[trace[i].entry].calls[t[1]].function)
                /\ StaysCall(crate.bodies[trace[i].entry].calls[t[2]].function)
                /\ HandedThrough(trace[i].entry, p, t)
                /\ Connected(trace[i].entry, t, trace[i].flow)

\* the chain entry point: get(), dp(result of get), send(result of dp)
ChainAnalysed == crate.name \in {"chain", "chainLabelled", "chainLocal", "chainInlinable"}
GetSite == Link("main", 1)
DpSite == Link("main", 2)
SendSite == Link("main", 3)

NonTransitive(fl) ==
    /\ InputDeps(fl, <<SendSite>>, 0) = {<<DpSite>>}
    /\ InputDeps(fl, <<DpSite>>, 0) = {<<GetSite>>}
    /\ connects(fl, GetSite, DpSite)
    /\ connects(fl, DpSite, SendSite)
    /\ connects(fl, GetSite, SendSite)
    /\ ~connects_direct(fl, GetSite, SendSite)

\* dp's body is spliced into main (inline.rs, the InlinableTarget arm)
DpInlined ==
    /\ ctrl.recursive
    /\ as_local(crate, "dp") /\ should_inline(crate, "dp")
    /\ maybe_body_owned_by(crate, "dp")

\* dp's call node is removed as inconsequential: the removal is on, dp is
\* unlabelled and is not a local function selected for inlining
DpRemoved ==
    /\ is_enabled(ctrl.remove)
    /\ ~is_semantically_meaningful(crate, "dp")
    /\ ~(as_local(crate, "dp") /\ should_inline(crate, "dp"))

\* the flow has no location for dp, and get is what send's argument has
SkipsDp(fl) ==
    /\ <<DpSite>> \notin all_locations(fl) \cup fl.return_dependencies
    /\ InputDeps(fl, <<SendSite>>, 0) = {<<GetSite>>}
    /\ connects_direct(fl, GetSite, SendSite)

\* C7 as stated: the flow of the chain is non-transitive, whatever the
\* options and whatever the oracle says about dp.
C7_NonTransitive ==
    ChainAnalysed => \A fl \in Flows : NonTransitive(fl)

\* C7, amended: the flow of the chain is non-transitive when dp's call is
\* neither inlined nor removed; when dp is inlined or removed, the flow has
\* no location for dp and get is the direct dependency of send.
C7_NonTransitiveWhenDpIsKept ==
    ChainAnalysed =>
        \A fl \in Flows :
            IF DpInlined \/ DpRemoved THEN SkipsDp(fl) ELSE NonTransitive(fl)

\* the chain has been analysed with removal on and a dp that stays: one
\* that is labelled, and one that is local and selected for inlining while
\* inlining is off
C7_Witness ==
    /\ ChainAnalysed
    /\ is_enabled(ctrl.remove)
    /\ ~DpInlined /\ ~DpRemoved
    /\ \E fl \in Flows : NonTransitive(fl)

\* the entry point with two values crossing into the inlined f
Get2Site == Link("main", 2)
InnerSendSite == Link("f", 1)
InnerSend2Site == Link("f", 2)

\* C8: with f inlined, get reaches send and get2 reaches send2, and neither
\* producer reaches the other one's consumer.
C8_ValuesStayApart ==
    (crate.name = "two" /\ ctrl.recursive) =>
        \A fl \in Flows :
            /\ connects(fl, GetSite, InnerSendSite)
            /\ connects(fl, Get2Site, InnerSend2Site)
            /\ ~connects(fl, GetSite, InnerSend2Site)
            /\ ~connects(fl, Get2Site, InnerSendSite)

\* the two-value entry point has been analysed with f inlined
C8_Witness ==
    /\ crate.name = "two" /\ ctrl.recursive
    /\ \E fl \in Flows : get_call_sites(fl, InnerSendSite) # {}
                           /\ get_call_sites(fl, InnerSend2Site) # {}

----------------------------------------------------------------------------
(* The place-level pipeline: global flow graphs (ana.rs) *)

\* mir::Place: a local and a projection
Place(local, proj) == [local |-> local, proj |-> proj]
P(local) == Place(local, <<>>)
\* ProjectionElem: the dereference, the fields f0, f1, ..., the three kinds of
\* indexing, and the casts to a variant or to an opaque type
Deref == "*"
FieldNames == <<"f0", "f1", "f2">>
Field(f) == FieldNames[f + 1]
IsField(elem) == elem \in Range(FieldNames)
as_usize(elem) == CHOOSE f \in 0..(Len(FieldNames) - 1) : Field(f) = elem
Index == "index"
ConstantIndex == "constant_index"
Subslice == "subslice"
Downcast == "downcast"
OpaqueCast == "opaque_cast"
\* None in SimplifiedArguments: an argument that is not a place
NoPlace == Place(NoLocal, <<>>)

\* the place up to, and without, its i-th projection element
PlaceRef(p, i) == Place(p.local, SubSeq(p.proj, 1, i - 1))

\* Place::project_deeper
project_deeper(p, more) == Place(p.local, p.proj \o more)

\* ProjectionElemExt::may_be_indirect
may_be_indirect(elem) == IsField(elem) \/ elem \in {Index, ConstantIndex, Subslice}

\* PlaceExt::provenance: the pointers dereferenced on the way to the place,
\* longest first, and then the place itself (rotate_right(0) moves nothing)
provenance_of(p) ==
    LET derefs == SelectSeq([i \in 1..Len(p.proj) |-> i], LAMBDA i : p.proj[i] = Deref)
    IN [k \in 1..Len(derefs) |-> PlaceRef(p, derefs[Len(derefs) + 1 - k])] \o <<p>>

\* statements and terminators of a body: a call with its arguments and its
\* destination, an assignment of an rvalue that mentions the places rhs, an
\* assignment of an aggregate of the operands args (NoPlace for a constant),
\* and a terminator that mentions the places rhs
CallStmt(args, destination) ==
    [kind |-> "call", args |-> args, lhs |-> destination, rhs |-> {}]
AssignStmt(lhs, rhs) == [kind |-> "assign", args |-> <<>>, lhs |-> lhs, rhs |-> rhs]
AggregateStmt(lhs, ops) == [kind |-> "aggregate", args |-> ops, lhs |-> lhs, rhs |-> {}]
OtherTerminator(places) == [kind |-> "term", args |-> <<>>, lhs |-> NoPlace, rhs |-> places]
NoStmt == [kind |-> "none", args |-> <<>>, lhs |-> NoPlace, rhs |-> {}]

\* handle_aggregate_assign indexes out of bounds, and panics, when read_after
\* has a shorter projection than the assigned place or names a field the
\* aggregate has no operand for
handle_aggregate_assign_panics(place, ops, read_after) ==
    /\ read_after # NoPlace
    /\ \/ Len(read_after.proj) < Len(place.proj)
       \/ /\ Len(read_after.proj) > Len(place.proj)
          /\ IsField(read_after.proj[Len(place.proj) + 1])
          /\ as_usize(read_after.proj[Len(place.proj) + 1]) >= Len(ops)

\* handle_aggregate_assign: the operand behind the field of the aggregate that
\* read_after reads, projected as read_after is below that field; NoPlace for
\* every Err
handle_aggregate_assign(place, ops, read_after) ==
    IF read_after = NoPlace THEN NoPlace
    ELSE IF handle_aggregate_assign_panics(place, ops, read_after) THEN Panicked
    ELSE LET inner_project ==
                 SubSeq(read_after.proj, Len(place.proj) + 1, Len(read_after.proj))
         IN IF inner_project = <<>> THEN NoPlace
            ELSE IF ~IsField(Head(inner_project)) THEN NoPlace
            ELSE IF ops[as_usize(Head(inner_project)) + 1] = NoPlace THEN NoPlace
            ELSE project_deeper(ops[as_usize(Head(inner_project)) + 1],
                                Tail(inner_project))

\* places_read: for an assignment the prefixes of the assigned place up to
\* its last projection that may be indirect, and the places of the right-hand
\* side; of an aggregate only the operand read_after reads, when there is
\* one; for a terminator every place it mentions, the destination of a call
\* included. A panic of handle_aggregate_assign is a panic of places_read.
places_read(stmt, read_after) ==
    IF stmt.kind = "aggregate"
       /\ handle_aggregate_assign_panics(stmt.lhs, stmt.args, read_after)
    THEN Panicked
    ELSE IF stmt.kind \in {"assign", "aggregate"}
    THEN LET fields == {i \in 1..Len(stmt.lhs.proj) : may_be_indirect(stmt.lhs.proj[i])}
             operand == handle_aggregate_assign(stmt.lhs, stmt.args, read_after)
         IN (IF fields = {} THEN {}
             ELSE {PlaceRef(stmt.lhs, i) :
                     i \in 1..(CHOOSE k \in fields : \A j \in fields : j <= k)})
            \cup (IF stmt.kind = "assign" THEN stmt.rhs
                  ELSE IF operand # NoPlace THEN {operand}
                  ELSE Range(stmt.args) \ {NoPlace})
    ELSE (stmt.rhs \cup Range(stmt.args) \cup {stmt.lhs}) \ {NoPlace}

\* TranslatedDepMatrix
untranslated(matrix) == [matrix |-> matrix, translated |-> FALSE, translator |-> <<>>]
translated(matrix, translator) ==
    [matrix |-> matrix, translated |-> TRUE, translator |-> translator]
is_translated(tm) == tm.translated

\* TranslatedDepMatrix::resolve_place
resolve_place(tm, place) ==
    IF tm.translated /\ place \in DOMAIN tm.translator THEN tm.translator[place]
    ELSE NoPlace

\* TranslatedDepMatrix::resolve: the translated place (if any) and the row
\* of the matrix for it
resolve(tm, place) ==
    LET resolved == resolve_place(tm, place)
        key == IF resolved = NoPlace THEN place ELSE resolved
    IN [place |-> resolved,
        deps |-> IF key \in DOMAIN tm.matrix THEN tm.matrix[key] ELSE {}]

\* the argument location for parameter a: one past the basic blocks
ArgPoint(a) == 100 + a

\* is_real_location
is_real_location(prog, link) == link \in DOMAIN prog.stmts

stmt_at(prog, link) == IF is_real_location(prog, link) THEN prog.stmts[link] ELSE NoStmt

\* a classification that keeps every statement, not only function calls
Keep_every_statement(prog, link, loc_is_top_level) ==
    IF ~is_real_location(prog, link)
    THEN IF loc_is_top_level THEN "Argument" ELSE "RejectNone"
    ELSE "Keep"

\* Keep::from_location
Keep_from_location(prog, link, loc_is_top_level) ==
    IF ~is_real_location(prog, link)
    THEN IF loc_is_top_level THEN "Argument" ELSE "RejectNone"
    ELSE IF stmt_at(prog, link).kind = "call" THEN "Keep" ELSE "Reject"

\* Keep::from_global_location: the innermost location decides
Keep_from_global_location(prog, location) ==
    Keep_from_location(prog, Last(location), is_at_root(location))

\* whether the graph holds a translated matrix for the location
AtBoundary(prog, location) ==
    location \in DOMAIN prog.states /\ is_translated(prog.states[location])

\* deps_for_places of deep_dependencies_of: the rows of the matrix at loc for
\* the places and their provenance, as (place, location) pairs. A row is a
\* hash set, so every order of a row is a possible result.
RECURSIVE RowsFor(_, _, _)
RowsFor(prog, loc, places) ==
    IF places = <<>> \/ loc \notin DOMAIN prog.states THEN {<<>>}
    ELSE LET p == Head(places)
             r == resolve(prog.states[loc], p)
             np == IF r.place = NoPlace THEN p ELSE r.place
         IN {[i \in DOMAIN row |-> <<np, row[i]>>] \o rest :
               row \in Perms(r.deps), rest \in RowsFor(prog, loc, Tail(places))}

deps_for_places(prog, loc, places) ==
    RowsFor(prog, loc,
            FoldSeq(LAMBDA acc, p : acc \o provenance_of(p), <<>>, places))

\* Aliases::reachable_values, as far as the program records it
reachable_values(prog, p) ==
    IF p \in DOMAIN prog.reachable THEN prog.reachable[p] ELSE {p}

\* the places deep_dependencies_of starts from
reachable_places(prog, p, use_reachable_places) ==
    IF use_reachable_places THEN Perms(reachable_values(prog, p)) ELSE {<<p>>}

----------------------------------------------------------------------------
(* Global flow graphs of entry procedures *)

Root(body, pt) == globalize_location(pt, body)
Inner(body, pt, callee, q) ==
    global_location_from_relative(globalize_location(q, callee), pt, body)

\* main: _1 = produce_usize(); _2 = produce_string(); _3 = move _1;
\*       _4 = move _2; _5 = read_usize(move _3); _6 = read_string(move _4);
\*       return
FsRows(pt) ==
    [p \in {P(l) : l \in 1..(IF pt > 5 THEN 4 ELSE pt - 1)} |-> {Root("fs", p.local)}]

FsProgram ==
    [name |-> "field_sensitivity",
     stmts |-> (Link("fs", 1) :> CallStmt(<<>>, P(1))) @@ (Link("fs", 2) :> CallStmt(<<>>, P(2)))
               @@ (Link("fs", 3) :> AssignStmt(P(3), {P(1)}))
               @@ (Link("fs", 4) :> AssignStmt(P(4), {P(2)}))
               @@ (Link("fs", 5) :> CallStmt(<<P(3)>>, P(5)))
               @@ (Link("fs", 6) :> CallStmt(<<P(4)>>, P(6)))
               @@ (Link("fs", 7) :> OtherTerminator({})),
     states |-> [l \in {Root("fs", pt) : pt \in 1..7} |->
                   untranslated(FsRows(innermost_location(l)))],
     reachable |-> <<>>]

\* main: _5 = get(); _6 = id(move _5); _7 = send(move _6, const); return
\* id(_1): _0 = move _1; return        (inlined at main's second location)
IdArg == Inner("main", 2, "id", ArgPoint(1))
IdReturnState == (P(0) :> {Inner("main", 2, "id", 1)}) @@ (P(1) :> {IdArg})

InlinedProgram ==
    [name |-> "inlined",
     stmts |-> (Link("main", 1) :> CallStmt(<<>>, P(5)))
               @@ (Link("main", 2) :> CallStmt(<<P(5)>>, P(6)))
               @@ (Link("main", 3) :> CallStmt(<<P(6), NoPlace>>, P(7)))
               @@ (Link("main", 4) :> OtherTerminator({}))
               @@ (Link("id", 1) :> AssignStmt(P(0), {P(1)}))
               @@ (Link("id", 2) :> OtherTerminator({})),
     states |-> (Root("main", 1) :> untranslated(<<>>))
                @@ (Root("main", 2) :>
                      translated(IdReturnState, (P(6) :> P(0)) @@ (P(5) :> P(1))))
                @@ (Inner("main", 2, "id", 1) :> untranslated(P(1) :> {IdArg}))
                @@ (Inner("main", 2, "id", 2) :> untranslated(IdReturnState))
                @@ (IdArg :> translated(P(5) :> {Root("main", 1)}, P(1) :> P(5)))
                @@ (Root("main", 3) :>
                      untranslated((P(5) :> {Root("main", 1)}) @@ (P(6) :> {Root("main", 2)})))
                @@ (Root("main", 4) :>
                      untranslated((P(5) :> {Root("main", 1)}) @@ (P(6) :> {Root("main", 2)}))),
     reachable |-> <<>>]

\* run(_1): _2 = src(); _3 = _2; loop { _3 = _3 + _4; _4 = _3 * _1;
\*          switch _4 }; _5 = sink(_4); return
LoopRows ==
    (P(1) :> {Root("run", ArgPoint(1))}) @@ (P(2) :> {Root("run", 1)})
    @@ (P(3) :> {Root("run", 2), Root("run", 3)}) @@ (P(4) :> {Root("run", 4)})

LoopProgram ==
    [name |-> "looping",
     stmts |-> (Link("run", 1) :> CallStmt(<<>>, P(2)))
               @@ (Link("run", 2) :> AssignStmt(P(3), {P(2)}))
               @@ (Link("run", 3) :> AssignStmt(P(3), {P(3), P(4)}))
               @@ (Link("run", 4) :> AssignStmt(P(4), {P(3), P(1)}))
               @@ (Link("run", 5) :> OtherTerminator({P(4)}))
               @@ (Link("run", 6) :> CallStmt(<<P(4)>>, P(5)))
               @@ (Link("run", 7) :> OtherTerminator({})),
     states |-> (Root("run", 1) :> untranslated(P(1) :> {Root("run", ArgPoint(1))}))
                @@ (Root("run", 2) :>
                      untranslated((P(1) :> {Root("run", ArgPoint(1))})
                                   @@ (P(2) :> {Root("run", 1)})))
                @@ [l \in {Root("run", pt) : pt \in 3..7} |-> untranslated(LoopRows)],
     reachable |-> <<>>]

\* wrap: _1 = make(); _2 = other(); (_3.f0) = move _1; _5 = &_3;
\*       _6 = use((*_5)); return
PointerRows ==
    (P(1) :> {Root("wrap", 1)}) @@ (P(2) :> {Root("wrap", 2)})
    @@ (P(3) :> {Root("wrap", 3)}) @@ (Place(3, <<Field(0)>>) :> {Root("wrap", 3)})
    @@ (P(5) :> {Root("wrap", 4)}) @@ (Place(5, <<Deref>>) :> {Root("wrap", 3)})
    @@ (Place(5, <<Deref, Field(0)>>) :> {Root("wrap", 3)})

PointerProgram ==
    [name |-> "pointer",
     stmts |-> (Link("wrap", 1) :> CallStmt(<<>>, P(1))) @@ (Link("wrap", 2) :> CallStmt(<<>>, P(2)))
               @@ (Link("wrap", 3) :> AssignStmt(Place(3, <<Field(0)>>), {P(1)}))
               @@ (Link("wrap", 4) :> AssignStmt(P(5), {P(3)}))
               @@ (Link("wrap", 5) :> CallStmt(<<Place(5, <<Deref>>)>>, P(6)))
               @@ (Link("wrap", 6) :> OtherTerminator({})),
     states |-> [l \in {Root("wrap", pt) : pt \in 1..6} |-> untranslated(PointerRows)],
     reachable |-> (Place(5, <<Deref>>) :> {Place(5, <<Deref>>), Place(5, <<Deref, Field(0)>>)})]

\* run: _1 = src(); loop { _3 = &mut _1; _4 = touch(move _3); switch };
\*      _5 = sink(move _1); return
\* touch(_1): return                  (inlined at run's third location)
\* Inside the loop the value behind _1 was last written by src or by the
\* call of an earlier round.
TouchArg == Inner("run", 3, "touch", ArgPoint(1))
TouchReturnState == (P(1) :> {TouchArg}) @@ (Place(1, <<Deref>>) :> {TouchArg})
TouchCallerRows ==
    (P(1) :> {Root("run", 1), Root("run", 3)}) @@ (P(3) :> {Root("run", 2)})
    @@ (Place(3, <<Deref>>) :> {Root("run", 1), Root("run", 3)})

TouchProgram ==
    [name |-> "touching",
     stmts |-> (Link("run", 1) :> CallStmt(<<>>, P(1)))
               @@ (Link("run", 2) :> AssignStmt(P(3), {P(1)}))
               @@ (Link("run", 3) :> CallStmt(<<P(3)>>, P(4)))
               @@ (Link("run", 4) :> OtherTerminator({}))
               @@ (Link("run", 5) :> CallStmt(<<P(1)>>, P(5)))
               @@ (Link("run", 6) :> OtherTerminator({}))
               @@ (Link("touch", 1) :> OtherTerminator({})),
     states |-> (Root("run", 1) :> untranslated(<<>>))
                @@ (Root("run", 3) :>
                      translated(TouchReturnState,
                                 (Place(3, <<Deref>>) :> Place(1, <<Deref>>))
                                 @@ (P(1) :> Place(1, <<Deref>>))))
                @@ (Inner("run", 3, "touch", 1) :> untranslated(TouchReturnState))
                @@ (TouchArg :>
                      translated(TouchCallerRows,
                                 (P(1) :> P(3))
                                 @@ (Place(1, <<Deref>>) :> Place(3, <<Deref>>))))
                @@ [l \in {Root("run", pt) : pt \in {2, 4, 5, 6}} |->
                      untranslated(TouchCallerRows)],
     reachable |-> <<>>]

\* w: switch { 1 _10 = a() | 2 _10 = b() | 3 _10 = const };
\*    4 _12 = sink(move (*(*(*_10)))); 5 return
\* The search for sink's argument starts from the rows of (*(*_10)), (*_10),
\* _10 and (*(*(*_10))), nine entries in all.
WSite(pt) == Root("w", pt)
WideRows ==
    (Place(10, <<Deref, Deref>>) :> {WSite(1), WSite(2), WSite(3)})
    @@ (Place(10, <<Deref>>) :> {WSite(1), WSite(2)})
    @@ (P(10) :> {WSite(1), WSite(3)})
    @@ (Place(10, <<Deref, Deref, Deref>>) :> {WSite(1), WSite(2)})

WideProgram ==
    [name |-> "wide",
     stmts |-> (Link("w", 1) :> CallStmt(<<>>, P(10)))
               @@ (Link("w", 2) :> CallStmt(<<>>, P(10)))
               @@ (Link("w", 3) :> AssignStmt(P(10), {}))
               @@ (Link("w", 4) :> CallStmt(<<Place(10, <<Deref, Deref, Deref>>)>>, P(12)))
               @@ (Link("w", 5) :> OtherTerminator({})),
     states |-> [l \in {WSite(pt) : pt \in {1, 2, 3}} |-> untranslated(<<>>)]
                @@ [l \in {WSite(pt) : pt \in {4, 5}} |-> untranslated(WideRows)],
     reachable |-> <<>>]

Programs ==
    {FsProgram, InlinedProgram, LoopProgram, PointerProgram, TouchProgram, WideProgram}
Program(name) == CHOOSE prog \in Programs : prog.name = name

----------------------------------------------------------------------------
(* compute_call_only_flow and deep_dependencies_of, step by step *)

prog == Program(shrink.prog)

\* The queue of a search is a vector without a bound. The state holds its
\* last MaxQueue entries, the end that pop and extend work on, in their
\* order, and in below the entries underneath them: which entries, and of
\* each how many, counted up to MaxCopies (MaxCopies stands for that many or
\* more). A vector of at most MaxQueue entries is held as it is. Of the
\* entries underneath the order is not held: when the last MaxQueue entries
\* are used up, pop yields any one of them.
MaxQueue == 7
MaxCopies == 2

\* the last MaxQueue entries of a vector, and the entries before them
InView(q) == IF Len(q) > MaxQueue THEN SubSeq(q, Len(q) - MaxQueue + 1, Len(q)) ELSE q
OutOfView(q) == IF Len(q) > MaxQueue THEN SubSeq(q, 1, Len(q) - MaxQueue) ELSE <<>>

\* how many times an entry is underneath
Copies(below, e) ==
    IF \E r \in below : r.entry = e THEN (CHOOSE r \in below : r.entry = e).copies ELSE 0

\* one more entry underneath
Sink(below, e) ==
    {r \in below : r.entry # e}
      \cup {[entry |-> e,
              copies |-> IF Copies(below, e) < MaxCopies THEN Copies(below, e) + 1
                         ELSE MaxCopies]}

\* one entry less underneath: of MaxCopies or more, MaxCopies - 1 or
\* MaxCopies or more are left
Raise(below, e) ==
    LET n == Copies(below, e)
        others == {r \in below : r.entry # e}
    IN {IF n = 1 THEN others ELSE others \cup {[entry |-> e, copies |-> n - 1]}}
         \cup (IF n = MaxCopies THEN {below} ELSE {})

\* Vec::pop: the last entry and what is left of the vector
Popped ==
    IF dfs.queue # <<>>
    THEN {[entry |-> Last(dfs.queue), queue |-> Front(dfs.queue), below |-> dfs.below]}
    ELSE UNION {{[entry |-> r.entry, queue |-> <<>>, below |-> b] :
                   b \in Raise(dfs.below, r.entry)} : r \in dfs.below}

\* Vec::extend
Extended(queue, more) == InView(queue \o more)
ExtendedBelow(below, queue, more) ==
    FoldSeq(LAMBDA b, e : Sink(b, e), below, OutOfView(queue \o more))

\* whenever the search gets down to the entries underneath, their counts are
\* exact
BelowIsExact == dfs.queue = <<>> => \A r \in dfs.below : r.copies < MaxCopies

\* the arguments of the call being worked on
CallArgs == stmt_at(prog, Last(shrink.loc)).args

\* the inliner takes no part in a run of the place-level pipeline
InlinerIdle ==
    /\ input = [crate |-> ChainCrate("chain", {}),
                ctrl |-> CHOOSE c \in Ctrls : ~c.recursive /\ c.pruning = "Off"
                                              /\ c.remove = "Disabled",
                debug_assertions |-> TRUE]
    /\ inline_memo = [f \in DOMAIN input.crate.bodies |-> Absent]
    /\ stack = <<>>
    /\ lastGet = NoGet
    /\ computed = [f \in DOMAIN input.crate.bodies |-> 0]
    /\ built = [f \in DOMAIN input.crate.bodies |-> Absent]
    /\ requests = 0
    /\ trace = <<>>
    /\ prev = <<>>
    /\ runs = 1
    /\ broken = {}
    /\ lastPrune = NoPrune
    /\ unwound = {}
    /\ clock = FALSE

ShrinkInit ==
    /\ InlinerIdle
    /\ \E g \in Programs, use_reachable \in BOOLEAN :
         shrink = [prog |-> g.name, use_reachable |-> use_reachable,
                   remaining |-> DOMAIN g.states, flow |-> {},
                   loc |-> NoLoc, input_deps |-> <<>>]
    /\ dfs = NoDfs
    /\ interner = NoInterner

InlinerUnchanged ==
    UNCHANGED <<input, inline_memo, stack, lastGet, computed, built, requests, trace,
                prev, runs, broken, lastPrune, clock, unwound, interner>>

\* filter_map yields nothing for a translated location and for a location
\* that is not a function call
FilterLocation ==
    /\ shrink.prog # "" /\ shrink.loc = NoLoc
    /\ \E l \in shrink.remaining :
         /\ \/ is_translated(prog.states[l])
            \/ Keep_from_global_location(prog, l) # "Keep"
         /\ shrink' = [shrink EXCEPT !.remaining = @ \ {l}]
    /\ UNCHANGED dfs
    /\ InlinerUnchanged

\* the next location of the hash map is a function call
EnterLocation ==
    /\ shrink.prog # "" /\ shrink.loc = NoLoc
    /\ \E l \in shrink.remaining :
         /\ ~is_translated(prog.states[l])
         /\ Keep_from_global_location(prog, l) = "Keep"
         /\ shrink' = [shrink EXCEPT !.remaining = @ \ {l}, !.loc = l,
                                     !.input_deps = <<>>]
    /\ UNCHANGED dfs
    /\ InlinerUnchanged

\* an argument that is not a place has no dependencies
ConstantArgument ==
    /\ shrink.loc # NoLoc /\ ~dfs.running
    /\ Len(shrink.input_deps) < Len(CallArgs)
    /\ CallArgs[Len(shrink.input_deps) + 1] = NoPlace
    /\ shrink' = [shrink EXCEPT !.input_deps = Append(@, {})]
    /\ UNCHANGED dfs
    /\ InlinerUnchanged

\* deep_dependencies_of starts: the queue holds the rows of the places read
StartSearch ==
    /\ shrink.loc # NoLoc /\ ~dfs.running
    /\ Len(shrink.input_deps) < Len(CallArgs)
    /\ LET p == CallArgs[Len(shrink.input_deps) + 1]
       IN /\ p # NoPlace
          /\ \E places \in reachable_places(prog, p, shrink.use_reachable) :
               \E queue \in deps_for_places(prog, shrink.loc, places) :
                 dfs' = [running |-> TRUE, queue |-> Extended(<<>>, queue),
                         below |-> ExtendedBelow({}, <<>>, queue),
                         seen |-> {}, deps |-> {}]
    /\ UNCHANGED shrink
    /\ InlinerUnchanged

\* the popped location is a translation boundary: translate the place,
\* resolve it and move on, without marking the location as seen
CrossBoundary ==
    /\ dfs.running
    /\ \E pop \in Popped :
         LET place == pop.entry[1]
             location == pop.entry[2]
         IN /\ AtBoundary(prog, location)
            /\ \E more \in deps_for_places(prog, location, <<place>>) :
                 dfs' = [dfs EXCEPT !.queue = Extended(pop.queue, more),
                                    !.below = ExtendedBelow(pop.below, pop.queue, more)]
    /\ UNCHANGED shrink
    /\ InlinerUnchanged

\* the popped location is a function call or an argument of the entry
FoundDependency ==
    /\ dfs.running
    /\ \E pop \in Popped :
         LET location == pop.entry[2]
         IN /\ ~AtBoundary(prog, location)
            /\ Keep_from_global_location(prog, location) \in {"Keep", "Argument"}
            /\ dfs' = [dfs EXCEPT !.queue = pop.queue, !.below = pop.below,
                                   !.deps = @ \cup {location}]
    /\ UNCHANGED shrink
    /\ InlinerUnchanged

\* the popped location is a statement not seen before: the search goes on
\* from the places it reads
VisitStatement ==
    /\ dfs.running
    /\ \E pop \in Popped :
         LET location == pop.entry[2]
             keep == Keep_from_global_location(prog, location)
         IN /\ ~AtBoundary(prog, location)
            /\ keep \in {"Reject", "RejectNone"}
            /\ location \notin dfs.seen
            /\ \E places \in Perms(IF keep = "Reject"
                                    THEN places_read(stmt_at(prog, Last(location)), NoPlace)
                                    ELSE {}) :
                 \E more \in deps_for_places(prog, location, places) :
                   dfs' = [dfs EXCEPT !.queue = Extended(pop.queue, more),
                                      !.below = ExtendedBelow(pop.below, pop.queue, more),
                                      !.seen = @ \cup {location}]
    /\ UNCHANGED shrink
    /\ InlinerUnchanged

\* the popped location is a statement seen before
SkipSeen ==
    /\ dfs.running
    /\ \E pop \in Popped :
         LET location == pop.entry[2]
         IN /\ ~AtBoundary(prog, location)
            /\ Keep_from_global_location(prog, location) \in {"Reject", "RejectNone"}
            /\ location \in dfs.seen
            /\ dfs' = [dfs EXCEPT !.queue = pop.queue, !.below = pop.below]
    /\ UNCHANGED shrink
    /\ InlinerUnchanged

\* the queue is empty: deep_dependencies_of returns deps
ReturnDeps ==
    /\ dfs.running /\ dfs.queue = <<>> /\ dfs.below = {}
    /\ shrink' = [shrink EXCEPT !.input_deps = Append(@, dfs.deps)]
    /\ dfs' = NoDfs
    /\ InlinerUnchanged

\* every argument is done: the call and its CallDeps enter the flow
EmitCallDeps ==
    /\ shrink.loc # NoLoc /\ ~dfs.running
    /\ Len(shrink.input_deps) = Len(CallArgs)
    /\ shrink' = [shrink EXCEPT
                    !.flow = @ \cup {[loc |-> shrink.loc, ctrl_deps |-> {},
                                      input_deps |-> shrink.input_deps]},
                    !.loc = NoLoc, !.input_deps = <<>>]
    /\ UNCHANGED dfs
    /\ InlinerUnchanged

ShrinkNext ==
    \/ FilterLocation
    \/ EnterLocation
    \/ ConstantArgument
    \/ StartSearch
    \/ CrossBoundary
    \/ FoundDependency
    \/ VisitStatement
    \/ SkipSeen
    \/ ReturnDeps
    \/ EmitCallDeps

ShrinkSpec == ShrinkInit /\ [][ShrinkNext]_vars

\* the pipeline is a sequential program: it takes its next step
FairShrinkSpec == ShrinkSpec /\ WF_<<shrink, dfs>>(ShrinkNext)

----------------------------------------------------------------------------
(* The place-level pipeline: C9 *)

ProduceUsizeSite == Root("fs", 1)
ProduceStringSite == Root("fs", 2)
ReadUsizeSite == Root("fs", 5)
ReadStringSite == Root("fs", 6)

\* the CallDeps the flow holds for a call location
CallDepsAt(l) == {e \in shrink.flow : e.loc = l}

\* C9: in the entry that stores produce_usize() in one local and
\* produce_string() in another and hands the first to read_usize and the
\* second to read_string, the dependencies of read_usize's argument hold
\* produce_usize's call location, and those of read_string's argument hold
\* produce_string's call location and not produce_usize's
C9_FieldSensitivity ==
    shrink.prog = FsProgram.name =>
      /\ \A e \in CallDepsAt(ReadUsizeSite) : ProduceUsizeSite \in e.input_deps[1]
      /\ \A e \in CallDepsAt(ReadStringSite) :
           /\ ProduceUsizeSite \notin e.input_deps[1]
           /\ ProduceStringSite \in e.input_deps[1]

C9_Witness ==
    /\ shrink.prog = FsProgram.name
    /\ shrink.remaining = {} /\ shrink.loc = NoLoc
    /\ CallDepsAt(ReadUsizeSite) # {}
    /\ CallDepsAt(ReadStringSite) # {}

----------------------------------------------------------------------------
(* Pruning: C10 *)

\* a single equation between two places, without projections
PlainEquation(eqs, a, b) ==
    \E i \in DOMAIN eqs :
        \/ eqs[i] = Equality_new(Term_new_base(a), Term_new_base(b))
        \/ eqs[i] = Equality_new(Term_new_base(b), Term_new_base(a))

\* the call a call node stands for, read off the body that holds its
\* innermost call site
CallOf(n) == crate.bodies[Last(n.loc)[1]].calls[Last(n.loc)[2]]

\* a local of the body that holds the innermost call site of n, as the
\* graph of the entry point names it
PlaceNextTo(n, local) ==
    [local |-> local,
     location |-> IF Len(n.loc) = 1 THEN NoLoc ELSE SubSeq(n.loc, 1, Len(n.loc) - 1)]

\* the place of argument idx of the destination of an edge
DestinationPlaces(to, idx) ==
    CASE to.kind = "Return" -> {[local |-> RETURN_PLACE, location |-> NoLoc]}
      [] to.kind = "Argument" -> {[local |-> to.arg + 1, location |-> NoLoc]}
      [] OTHER -> {PlaceNextTo(to, CallOf(to).arguments[j].local) :
                     j \in {k \in DOMAIN CallOf(to).arguments :
                              k = idx + 1 /\ CallOf(to).arguments[k].some}}

\* the argument places and the return place of the source of an edge
SourcePlaces(from) ==
    CASE from.kind = "Return" -> {}
      [] from.kind = "Argument" -> {[local |-> from.arg + 1, location |-> NoLoc]}
      [] OTHER -> {PlaceNextTo(from, CallOf(from).arguments[j].local) :
                      j \in {k \in DOMAIN CallOf(from).arguments :
                               CallOf(from).arguments[k].some}}
                  \cup {PlaceNextTo(from, l) : l \in {CallOf(from).return_to} \ {NoLocal}}

\* the (from, to, idx) of the graph handed to the pruning whose dependency
\* holds by a single plain equation
PlainlyJustified ==
    {t \in UNION {{<<e.from, e.to, idx>> : idx \in e.w.data} : e \in lastPrune.before.edges} :
        \E a \in DestinationPlaces(t[2], t[3]) : \E b \in SourcePlaces(t[1]) :
            PlainEquation(lastPrune.before.equations, a, b)}

\* C10: under every strategy and policy, pruning keeps every argument bit
\* of an edge whose destination argument and one of the source's argument
\* or return places are the two sides of a single equation without
\* projections.
C10_PlainEqualityIsNeverPruned ==
    \A t \in PlainlyJustified :
        /\ HasEdge(lastPrune.after, t[1], t[2])
        /\ t[3] \in edge_weight(lastPrune.after, t[1], t[2]).data

\* pruning has looked at a plainly justified bit and has cleared another
C10_Witness ==
    /\ \E t \in PlainlyJustified : <<t[1], t[2]>> \in lastPrune.edges
    /\ lastPrune.before # lastPrune.after

----------------------------------------------------------------------------
(* Pruning: C11 *)

\* impossible-edge pruning over all not-previously-pruned edges
PruneAll(g) == prune_impossible_edges(crate, g, find_prunable_edges(g))

\* the most recent inline_graph pruned with the strategy
\* NotPreviouslyPrunedEdges
PrunedByAll ==
    /\ lastPrune # NoPrune
    /\ ctrl.pruning = "NotPreviouslyPrunedEdges"

\* C11: pruning the pruned graph once more, with the same equations and
\* over all not-previously-pruned edges, clears no bit and removes no edge:
\* the graph stays as it is.
C11_PruningIsIdempotent ==
    PrunedByAll =>
        /\ find_prunable_edges(lastPrune.after) \subseteq lastPrune.edges
        /\ ~prune_impossible_edges_panics(crate, lastPrune.after,
                                          find_prunable_edges(lastPrune.after))
        /\ PruneAll(lastPrune.after) = lastPrune.after

\* the first pruning has changed the graph, and not-previously-pruned
\* edges are left for the second
C11_Witness ==
    /\ PrunedByAll
    /\ lastPrune.before # lastPrune.after
    /\ find_prunable_edges(lastPrune.after) # {}

----------------------------------------------------------------------------
(* Argument and return indexing: C12 *)

\* every graph the inliner holds: the stored ones and those under construction
GraphsInHand ==
    {inline_memo[f].graph : f \in {h \in DOMAIN inline_memo : inline_memo[h].state = "Built"}}
        \cup {stack[i].g : i \in DOMAIN stack}

\* the sources of the edges into n that carry data index a
DataSources(entry, g, n, a) ==
    {SourceLocation(entry, e.from) : e \in {x \in Incoming(g, n) : a \in x.w.data}}

\* the data indexes on the edges into a call address arguments of that call
IndexesAddressArguments(g) ==
    \A e \in g.edges :
        e.to.kind = "Call" =>
            \A a \in e.w.data :
                /\ a < crate.inputs[e.to.fn]
                /\ a < Len(get_call(crate, e.to.loc).arguments)
                /\ get_call(crate, e.to.loc).arguments[a + 1].some

\* the flow extracted for an entry point agrees, argument by argument, with
\* the graph stored for it
FlowKeepsIndexes(entry, fl) ==
    LET g == inline_memo[entry].graph
    IN /\ \A d \in fl.location_dependencies :
              LET n == CallNode(d.loc, get_call(crate, d.loc).function)
              IN /\ HasNode(g, n)
                 /\ Len(d.deps.input_deps) <= crate.inputs[n.fn]
                 /\ \A a \in 0..(crate.inputs[n.fn] - 1) :
                        InputDeps(fl, d.loc, a) = DataSources(entry, g, n, a)
       /\ fl.return_dependencies =
              {SourceLocation(entry, e.from) :
                  e \in {x \in Incoming(g, ReturnNode) : x.w.data # {}}}

\* the next step of the innermost inline_graph invocation indexes past the
\* arguments of a call: argument_map and the parameter equations when a
\* callee is spliced in, node_to_local when an edge is pruned
IndexingPanics ==
    /\ stack # <<>>
    /\ \/ /\ InlinableTarget
          /\ get(inline_memo, Head(Top.targets).def_id) = "Some"
          /\ SpliceSetup_panics(crate, Top.body_id, Top.g, Head(Top.targets).idx)
       \/ /\ Top.targets = <<>>
          /\ use_pruning(ctrl)
          /\ LET g == RemoveStep(crate, ctrl, Top.g)
             IN \E pr \in EdgesToPrune(ctrl, g, Top.queue) :
                   /\ HasEdge(g, pr[1], pr[2])
                   /\ \E idx \in edge_weight(g, pr[1], pr[2]).data :
                         node_to_local_panics(crate, pr[2], idx)

\* C12: through inlining, dropping, removal and pruning the data index i on
\* an edge into a call always addresses the i-th positional argument of that
\* call, and the extracted flow lists, at position i, exactly the sources of
\* the edges with index i, and as return dependencies exactly the sources of
\* the edges into the return node; no index is looked up past the arguments.
C12_ArgumentIndexing ==
    /\ \A g \in GraphsInHand : IndexesAddressArguments(g)
    /\ ~IndexingPanics
    /\ \A i \in DOMAIN trace :
           inline_memo[trace[i].entry].state = "Built"
               /\ FlowKeepsIndexes(trace[i].entry, trace[i].flow)

\* a flow obtained with inlining in which a call reached through an inlined
\* callee has an empty first and a non-empty second argument position
C12_Witness ==
    /\ ctrl.recursive
    /\ \E fl \in Flows : \E d \in fl.location_dependencies :
           /\ Len(d.loc) > 1
           /\ Len(d.deps.input_deps) = 2
           /\ d.deps.input_deps[1] = {}
           /\ d.deps.input_deps[2] # {}

----------------------------------------------------------------------------
(* One node per call site: C13 *)

CallNodes(g) == {n \in Range(g.nodes) : n.kind = "Call"}

\* the nodes of g are pairwise different, and so are the locations of its
\* call nodes
OneNodePerLocation(g) ==
    /\ \A i, j \in DOMAIN g.nodes : g.nodes[i] = g.nodes[j] => i = j
    /\ \A n, m \in CallNodes(g) : n.loc = m.loc => n = m

\* C13: in every graph the inliner builds no two call nodes carry the same
\* global location, so the extraction of the call-only flow meets every call
\* location once: its assertion on a duplicate key does not fail and the
\* flow has one entry per call node of the graph.
C13_OneNodePerCallSite ==
    /\ \A g \in GraphsInHand : OneNodePerLocation(g) /\ ~duplicate_location(g)
    /\ \A i \in DOMAIN trace :
           LET fl == trace[i].flow
               g == inline_memo[trace[i].entry].graph
           IN /\ \A d, e \in fl.location_dependencies : d.loc = e.loc => d = e
              /\ Cardinality(fl.location_dependencies) = Cardinality(CallNodes(g))

\* a flow in which one call site of a callee appears twice, reached through
\* two different call sites of the callee
C13_Witness ==
    \E fl \in Flows : \E d, e \in fl.location_dependencies :
        /\ d.loc # e.loc
        /\ Len(d.loc) > 1 /\ Len(e.loc) > 1
        /\ Last(d.loc) = Last(e.loc)

----------------------------------------------------------------------------
(* The return node is a sink: C14 *)

IsSource(n) == n.kind \in {"Call", "Argument"}

\* the next step of the innermost inline_graph invocation, or an extraction
\* of the flow of a stored graph, takes a match arm for a Return source:
\* connect_to in the splice, the pruning of an edge, to_call_only_flow
ReturnArmTaken ==
    \/ \E f \in DOMAIN inline_memo :
          /\ inline_memo[f].state = "Built"
          /\ \E n \in Range(inline_memo[f].graph.nodes) :
                /\ n.kind \in {"Call", "Return"}
                /\ get_dependencies_panics(inline_memo[f].graph, n)
    \/ /\ stack # <<>>
       /\ InlinableTarget
       /\ get(inline_memo, Head(Top.targets).def_id) = "Some"
       /\ ~SpliceSetup_panics(crate, Top.body_id, Top.g, Head(Top.targets).idx)
       /\ \E r \in Splice(crate, Top.body_id, Top.g, Top.queue, Head(Top.targets).idx,
                          inline_memo[Head(Top.targets).def_id].graph) : r.panicked
    \/ /\ stack # <<>>
       /\ Top.targets = <<>>
       /\ use_pruning(ctrl)
       /\ LET g == RemoveStep(crate, ctrl, Top.g)
          IN \E pr \in EdgesToPrune(ctrl, g, Top.queue) :
                /\ pr[1].kind = "Return"
                /\ HasEdge(g, pr[1], pr[2])
                /\ edge_weight(g, pr[1], pr[2]).data # {}

\* C14: in every graph built by construction, inlining, dropping of poll,
\* removal of inconsequential calls and pruning, every edge starts at a call
\* or an argument node and never at the return node; the same holds for the
\* edges queued for pruning, so the match arms for a Return source in
\* connect_to, prune_impossible_edges and to_call_only_flow are never taken.
C14_ReturnIsNeverASource ==
    /\ \A g \in GraphsInHand : \A e \in g.edges : IsSource(e.from)
    /\ ~ReturnArmTaken
    /\ \A i \in DOMAIN stack : \A pr \in stack[i].queue : IsSource(pr[1])
    /\ lastPrune # NoPrune =>
           /\ \A pr \in lastPrune.edges : IsSource(pr[1])
           /\ \A e \in lastPrune.before.edges \cup lastPrune.after.edges : IsSource(e.from)

\* a stored graph, built with inlining, removal and pruning, whose return
\* node has incoming edges that were bridged across an inlined callee
C14_Witness ==
    /\ ctrl.recursive /\ is_enabled(ctrl.remove) /\ use_pruning(ctrl)
    /\ lastPrune # NoPrune
    /\ lastPrune.after.num_inlined > 0
    /\ lastPrune.edges # {}
    /\ \E e \in lastPrune.after.edges : e.to = ReturnNode
    /\ inline_memo[lastPrune.body] = Built(lastPrune.after)

----------------------------------------------------------------------------
(* A computation that fails part-way: C15 *)

\* main calls mid and sends its result; mid polls a future whose two
\* arguments, the future and the context, both come from one call of make
PanicMain ==
    MkBody([p \in {1, 2} |->
              CASE p = 1 -> MkCall("mid", <<>>, 1, {})
                [] p = 2 -> MkCall("send", <<Arg(2, {TCall(1)})>>, NoLocal, {})],
           {}, <<>>, <<LEq(2, 1)>>)
PanicMid ==
    MkBody([p \in {1, 2} |->
              CASE p = 1 -> MkCall("make", <<>>, 1, {})
                [] p = 2 -> MkCall("poll", <<Arg(2, {TCall(1)}), Arg(3, {TCall(1)})>>, 4, {})],
           {TCall(2)}, <<>>, <<LEq(2, 1), LEq(3, 1), LEq(RETURN_PLACE, 4)>>)

PanicCrate ==
    MkCrate("panic", [f \in {"main", "mid"} |-> IF f = "main" THEN PanicMain ELSE PanicMid],
            {}, {"mid"}, {"make", "send"},
            [f \in {"main", "mid", "make", "poll", "send"} |->
                CASE f = "poll" -> 2 [] f = "send" -> 1 [] OTHER -> 0],
            [f \in {"main", "mid", "make", "poll", "send"} |->
                IF f = "poll" THEN {0, 1} ELSE {}], {"main", "mid"})

\* gen's main with a from_generator call of two arguments, the generator
\* the last of them
Gen2Main ==
    MkBody([p \in {1, 2, 3} |->
              CASE p = 1 -> MkCall("make", <<>>, 1, {})
                [] p = 2 -> MkCall(FromGenerator,
                                   <<Arg(5, {TCall(1)}), Arg(2, {TCall(1)})>>, 3, {})
                [] p = 3 -> MkCall("send", <<Arg(4, {TCall(2)})>>, NoLocal, {})],
           {}, <<>>, <<LEq(2, 1), LEq(5, 1), LEq(4, 3)>>)

Gen2Crate ==
    [MkCrate("gen2", [f \in {"main", "main_gen"} |-> IF f = "main" THEN Gen2Main ELSE GenClosure],
             {}, {}, {"make", "send"},
             [f \in {"main", "main_gen", "make", "work", "send", FromGenerator} |->
                 IF f \in {"main", "make"} THEN 0 ELSE 1],
             NoMut({"main", "main_gen", "make", "work", "send", FromGenerator}), {"main"})
       EXCEPT !.generators = [k \in {<<"main", 2>>} |-> "main_gen"]]

\* gen's main with a generator of another crate
GenExtCrate ==
    [MkCrate("genext", [f \in {"main"} |-> GenMain],
             {}, {}, {"make", "send"},
             [f \in {"main", "ext_gen", "make", "send", FromGenerator} |->
                 IF f \in {"main", "make"} THEN 0 ELSE 1],
             NoMut({"main", "ext_gen", "make", "send", FromGenerator}), {"main"})
       EXCEPT !.generators = [k \in {<<"main", 2>>} |-> "ext_gen"]]

FailCrates == Crates \cup {PanicCrate, Gen2Crate, GenExtCrate}

\* the next step of the innermost inline_graph invocation panics: in the
\* selection of the targets, in InlineAction::Drop, in the splice of a callee
\* or in the pruning
StepPanics ==
    /\ stack # <<>>
    /\ \/ Top.panicked
       \/ /\ Top.targets # <<>>
          /\ Head(Top.targets).action = "Drop"
          /\ DropCall_panics(crate, Top.g, Head(Top.targets).idx)
       \/ /\ InlinableTarget
          /\ get(inline_memo, Head(Top.targets).def_id) = "Some"
          /\ \E r \in Splice(crate, Top.body_id, Top.g, Top.queue, Head(Top.targets).idx,
                             inline_memo[Head(Top.targets).def_id].graph) : r.panicked
       \/ /\ Top.targets = <<>>
          /\ PruneStep_panics(crate, ctrl, RemoveStep(crate, ctrl, Top.g), Top.queue)

\* a panic (the failed assertion of InlineAction::Drop, an unwrap of None, an
\* index out of bounds, an unreachable!()) unwinds every active inline_graph
\* invocation and every RecursionBreakingCache::get below it; the cache is
\* not touched on the way
Panic ==
    /\ clock' = ~clock
    /\ StepPanics
    /\ unwound' = unwound \cup {stack[i].body_id : i \in DOMAIN stack}
    /\ stack' = <<>>
    /\ UNCHANGED <<interner, shrink, dfs, input, inline_memo, lastGet, computed, built,
                   requests, trace, prev, runs, broken, lastPrune>>

FailInit == InlinerStart(FailCrates)

FailNext ==
    \/ \E p \in crate.entries : Request(p)
    \/ SkipNoBody
    \/ Drop
    \/ Panic
    \/ Descend
    \/ BreakRecursion
    \/ InlineCallee
    \/ Finish
    \/ Restart

\* the inliner on crates among which one makes a computation fail, with a
\* caller that goes on to the next entry point after a failure
FailSpec == FailInit /\ [][FailNext]_vars

\* C15: when the computation of one entry procedure fails part-way, the memo
\* is left intact for the others: a procedure has the None placeholder only
\* while its computation is running, every built entry is the graph first
\* stored for it, and no outermost request is answered "recursive".
C15_FailureIsolation ==
    /\ \A f \in DOMAIN inline_memo :
           inline_memo[f].state = "InProgress" => \E i \in DOMAIN stack : stack[i].body_id = f
    /\ \A f \in DOMAIN inline_memo :
           inline_memo[f].state = "Built" => inline_memo[f] = built[f]
    /\ stack = <<>> => lastGet.result # "None"

----------------------------------------------------------------------------
(* Interned global locations: C16 - C18 *)

\* the body ids and the locations of the interned locations, and the owner
\* and local id order of the body ids (HirId)
LocFunctions == {"f", "g"}
LocPoints == {1, 2}
hir_id(function) == IF function = "f" THEN 1 ELSE 2

\* GlobalLocationS; next is a GlobalLocation or 0 for None
GlobalLocationS(function, location, next) ==
    [function |-> function, location |-> location, next |-> next]

\* a GlobalLocation is a reference into the arena: here the index
Handles(arena) == DOMAIN arena

\* GlobalLocation::stable_id: the address of the payload
stable_id(h) == h

\* an interner that allocates whatever it is given
intern_allocating(arena, loc) ==
    [arena |-> Append(arena, loc), handle |-> Len(arena) + 1]

\* GlobalLocationInterner::intern_location: the payload known under this
\* content, or a fresh allocation in the arena
intern_location(arena, loc) ==
    IF \E h \in Handles(arena) : arena[h] = loc
    THEN [arena |-> arena, handle |-> CHOOSE h \in Handles(arena) : arena[h] = loc]
    ELSE [arena |-> Append(arena, loc), handle |-> Len(arena) + 1]

\* GLI::make_global_location
make_global_location(arena, function, location, next) ==
    intern_location(arena, GlobalLocationS(function, location, next))

\* the chain of links a location stands for, outermost first
RECURSIVE Chain(_, _)
Chain(arena, h) ==
    IF arena[h].next = 0 THEN <<Link(arena[h].function, arena[h].location)>>
    ELSE <<Link(arena[h].function, arena[h].location)>> \o Chain(arena, arena[h].next)

Compare(x, y) == IF x < y THEN "Less" ELSE IF x = y THEN "Equal" ELSE "Greater"

\* a comparison that stops at the first link
partial_cmp_of_heads(arena, self, other) ==
    IF arena[self].function # arena[other].function
    THEN Compare(hir_id(arena[self].function), hir_id(arena[other].function))
    ELSE Compare(arena[self].location, arena[other].location)

\* PartialOrd for GlobalLocation
RECURSIVE partial_cmp(_, _, _)
partial_cmp(arena, self, other) ==
    IF arena[self].function # arena[other].function
    THEN Compare(hir_id(arena[self].function), hir_id(arena[other].function))
    ELSE IF arena[self].location = arena[other].location
         THEN CASE arena[self].next # 0 /\ arena[other].next # 0 ->
                     partial_cmp(arena, arena[self].next, arena[other].next)
                [] arena[self].next = 0 /\ arena[other].next = 0 -> "Equal"
                [] arena[self].next = 0 /\ arena[other].next # 0 -> "Less"
                [] OTHER -> "Greater"
         ELSE Compare(arena[self].location, arena[other].location)

\* a parent that hands out the link after the outermost one
IsGlobalLocation_second(arena, self) == arena[self].next

\* IsGlobalLocation::parent; 0 for None
RECURSIVE IsGlobalLocation_parent(_, _)
IsGlobalLocation_parent(arena, self) ==
    IF arena[self].next # 0
    THEN IF arena[arena[self].next].next = 0
         THEN self
         ELSE IsGlobalLocation_parent(arena, arena[self].next)
    ELSE 0

\* IsGlobalLocation::is_at_root
IsGlobalLocation_is_at_root(arena, self) == arena[self].next = 0

InternerOnly ==
    UNCHANGED <<input, inline_memo, stack, lastGet, computed, built, requests, trace,
                prev, runs, broken, lastPrune, clock, unwound, shrink, dfs>>

\* room in the arena for the payload
CanIntern(loc) ==
    \/ Len(interner.arena) < MaxArena
    \/ \E h \in Handles(interner.arena) : interner.arena[h] = loc

\* the interner after make_global_location, with the operation recorded
AfterIntern(function, location, next) ==
    LET loc == GlobalLocationS(function, location, next)
        r == make_global_location(interner.arena, function, location, next)
    IN [arena |-> r.arena,
        op |-> [NoOp EXCEPT !.kind = "intern", !.a = next, !.loc = loc,
                            !.result = r.handle,
                            !.allocated = r.arena # interner.arena]]

\* GLI::globalize_location
GlobalizeLocation ==
    /\ \E function \in LocFunctions, location \in LocPoints :
          /\ CanIntern(GlobalLocationS(function, location, 0))
          /\ interner' = AfterIntern(function, location, 0)
    /\ InternerOnly

\* GLI::global_location_from_relative
GlobalLocationFromRelative ==
    /\ \E root_function \in LocFunctions, root_location \in LocPoints,
          relative_location \in Handles(interner.arena) :
          /\ CanIntern(GlobalLocationS(root_function, root_location, relative_location))
          /\ interner' = AfterIntern(root_function, root_location, relative_location)
    /\ InternerOnly

\* Ord::cmp on two locations of the interner
CompareLocations ==
    /\ \E a, b \in Handles(interner.arena) :
          interner' = [interner EXCEPT
                          !.op = [NoOp EXCEPT !.kind = "cmp", !.a = a, !.b = b,
                                              !.order = partial_cmp(interner.arena, a, b)]]
    /\ InternerOnly

\* parent() on a location of the interner
AskParent ==
    /\ \E a \in Handles(interner.arena) :
          interner' = [interner EXCEPT
                          !.op = [NoOp EXCEPT !.kind = "parent", !.a = a,
                                              !.result = IsGlobalLocation_parent(interner.arena, a)]]
    /\ InternerOnly

LocInit ==
    /\ InlinerIdle
    /\ shrink = NoShrink
    /\ dfs = NoDfs
    /\ interner = NoInterner

LocNext ==
    \/ GlobalizeLocation
    \/ GlobalLocationFromRelative
    \/ CompareLocations
    \/ AskParent

LocSpec == LocInit /\ [][LocNext]_vars

\* C16: two locations of one interner are equal, and have the same stable
\* id, exactly when their chains of (procedure, point) links are equal;
\* interning hands out the reference to the payload it was given, the chain
\* is the one the structural constructors describe, and a payload that is
\* known is not allocated again.
C16_InterningIsStructuralEquality ==
    LET arena == interner.arena
        op == interner.op
    IN /\ \A a, b \in Handles(arena) :
              /\ (a = b) <=> (Chain(arena, a) = Chain(arena, b))
              /\ (stable_id(a) = stable_id(b)) <=> (Chain(arena, a) = Chain(arena, b))
              /\ arena[a] = arena[b] => a = b
       /\ op.kind = "intern" =>
              /\ op.result \in Handles(arena)
              /\ arena[op.result] = op.loc
              /\ Chain(arena, op.result) =
                    IF op.a = 0 THEN globalize_location(op.loc.location, op.loc.function)
                    ELSE global_location_from_relative(Chain(arena, op.a), op.loc.location,
                                                       op.loc.function)
              /\ op.allocated => op.result = Len(arena)

\* a nested location has been interned a second time and the reference
\* handed out is the one of the first time
C16_Witness ==
    /\ interner.op.kind = "intern"
    /\ interner.op.a # 0
    /\ ~interner.op.allocated
    /\ interner.op.result < Len(interner.arena)

\* the head links of two locations are the same
SameHead(arena, a, b) ==
    /\ arena[a].function = arena[b].function
    /\ arena[a].location = arena[b].location

\* C17: the comparison of global locations is a total order: it is defined
\* for every pair, antisymmetric and transitive, and Equal exactly for equal
\* chains; the procedure decides first, equal head links hand the decision
\* to next, and a location without next is less than one with the same head
\* link and a next.
C17_ComparisonIsATotalOrder ==
    LET arena == interner.arena
        op == interner.op
        cmp(a, b) == partial_cmp(arena, a, b)
    IN /\ \A a, b \in Handles(arena) :
              /\ cmp(a, b) \in {"Less", "Equal", "Greater"}
              /\ (cmp(a, b) = "Less") <=> (cmp(b, a) = "Greater")
              /\ (cmp(a, b) = "Equal") <=> (Chain(arena, a) = Chain(arena, b))
              /\ hir_id(arena[a].function) < hir_id(arena[b].function) => cmp(a, b) = "Less"
              /\ (SameHead(arena, a, b) /\ arena[a].next # 0 /\ arena[b].next # 0)
                    => cmp(a, b) = cmp(arena[a].next, arena[b].next)
              /\ (SameHead(arena, a, b) /\ arena[a].next = 0 /\ arena[b].next # 0)
                    => cmp(a, b) = "Less"
       /\ \A a, b, c \in Handles(arena) :
              (cmp(a, b) = "Less" /\ cmp(b, c) = "Less") => cmp(a, c) = "Less"
       /\ op.kind = "cmp" => op.order = cmp(op.a, op.b)

\* a top-level location has been compared with a nested one that starts
\* with the same link, and was found to be less
C17_Witness ==
    LET arena == interner.arena
        op == interner.op
    IN /\ op.kind = "cmp"
       /\ SameHead(arena, op.a, op.b)
       /\ arena[op.a].next = 0
       /\ arena[op.b].next # 0
       /\ op.order = "Less"

\* C18: parent() of a global location is none exactly when the location is
\* at root, that is when its chain has one link; otherwise it is the
\* second-to-last link of the chain, the call site that encloses the
\* innermost point, followed by the innermost link only.
C18_ParentIsTheEnclosingCallSite ==
    LET arena == interner.arena
        op == interner.op
    IN /\ \A a \in Handles(arena) :
              LET chain == Chain(arena, a)
                  p == IsGlobalLocation_parent(arena, a)
              IN /\ (p = 0) <=> IsGlobalLocation_is_at_root(arena, a)
                 /\ (p = 0) <=> (Len(chain) = 1)
                 /\ p # 0 =>
                       /\ p \in Handles(arena)
                       /\ Link(arena[p].function, arena[p].location) = chain[Len(chain) - 1]
                       /\ Chain(arena, p) = SubSeq(chain, Len(chain) - 1, Len(chain))
       /\ op.kind = "parent" => op.result = IsGlobalLocation_parent(arena, op.a)

\* parent() has been asked of a chain of three links and has answered with
\* the link in the middle
C18_Witness ==
    LET arena == interner.arena
        op == interner.op
    IN /\ op.kind = "parent"
       /\ Len(Chain(arena, op.a)) = 3
       /\ op.result # 0
       /\ op.result = arena[op.a].next
       /\ arena[op.result].function # arena[op.a].function

----------------------------------------------------------------------------
(* The raw graph of a procedure: C19 *)

\* the edges the summary of a body describes: per argument, control, return
\* and write-back to the arguments
SummaryEdges(body_id, body) ==
    LET node(d) == TargetNode(body, body_id, d)
        call(p) == CallNode(globalize_location(p, body_id), body.calls[p].function)
        weight(from, p) ==
            [data |-> {i - 1 : i \in {j \in DOMAIN body.calls[p].arguments :
                          /\ body.calls[p].arguments[j].some
                          /\ \E d \in body.calls[p].arguments[j].deps : node(d) = from}},
             control |-> \E d \in body.calls[p].ctrl_deps : node(d) = from]
        sources == {node(d) : d \in TargetsOf(body)}
    IN {e \in {[from |-> f, to |-> call(p), w |-> weight(f, p)] :
                  f \in sources, p \in DOMAIN body.calls} : ~Edge_is_empty(e.w)}
         \cup {[from |-> node(d), to |-> ReturnNode, w |-> add_type(EmptyEdge, Data(0))] :
                  d \in body.return_deps}
         \cup UNION {{[from |-> node(d), to |-> ArgumentNode(i - 1),
                       w |-> add_type(EmptyEdge, Data(0))] : d \in body.return_arg_deps[i]} :
                        i \in DOMAIN body.return_arg_deps}

\* the graphs from_body may build for a body
RawGraphs(body_id) ==
    {from_body(body_id, crate.bodies[body_id], ord) : ord \in Orders(crate.bodies[body_id])}

\* an invocation of inline_graph that has just built its raw graph
RawFrames ==
    {i \in DOMAIN stack :
        \E raw \in RawGraphs(stack[i].body_id) :
            /\ stack[i].g.nodes = raw.nodes
            /\ stack[i].g.edges = raw.edges
            /\ stack[i].g.num_inlined = 0}

\* C19: the raw graph built from the summary of a procedure has a Call node
\* for every call site of the summary, also for one without dependencies
\* and dependents, an Argument node for every formal argument, and the
\* Return node; its edges are exactly the dependencies of the summary.
C19_RawGraphIsComplete ==
    \A i \in RawFrames :
        LET body_id == stack[i].body_id
            body == crate.bodies[body_id]
            g == stack[i].g
        IN /\ \A p \in DOMAIN body.calls :
                  HasNode(g, CallNode(globalize_location(p, body_id), body.calls[p].function))
           /\ \A a \in 0..(crate.inputs[body_id] - 1) : HasNode(g, ArgumentNode(a))
           /\ HasNode(g, ReturnNode)
           /\ g.edges = SummaryEdges(body_id, body)

\* the part of C19 that holds: the Return node is there, every node that
\* has a dependency or a dependent is there, and the edges are exactly the
\* dependencies of the summary
RawGraphHasTheEdges ==
    \A i \in RawFrames :
        LET body_id == stack[i].body_id
            g == stack[i].g
        IN /\ HasNode(g, ReturnNode)
           /\ g.edges = SummaryEdges(body_id, crate.bodies[body_id])
           /\ Range(g.nodes) = {ReturnNode} \cup {e.from : e \in g.edges}
                                             \cup {e.to : e \in g.edges}

----------------------------------------------------------------------------
(* Equations for the calls that stay: C20 *)

\* equations of a callee as they arrive in the graph of a caller that
\* reached the callee through the call sites of prefix, outermost first
RECURSIVE RelativizeThrough(_, _)
RelativizeThrough(equations, prefix) ==
    IF prefix = <<>> THEN equations
    ELSE RelativizeThrough(relativize_eqs(equations, Last(prefix)), Front(prefix))

\* the conservative equations of the call behind a call node
ConservativeEquations(n) ==
    Range(RelativizeThrough(AbstractionEquations(crate, get_call(crate, n.loc)),
                            Front(n.loc)))

\* the call nodes of stored graphs whose conservative equations are not all
\* among the equations of the graph
CallsWithoutEquations ==
    {<<f, n>> \in UNION {{<<h, m>> : m \in CallNodes(inline_memo[h].graph)} :
                             h \in {k \in DOMAIN inline_memo :
                                        inline_memo[k].state = "Built"}} :
        ~(ConservativeEquations(n) \subseteq Range(inline_memo[f].graph.equations))}

\* C20: every call that is still a call node of the graph stored for a
\* procedure, whatever the reason it was not inlined, has its conservative
\* equations in the equations of that graph: each place the call may write
\* (return destination, mutable arguments) against every other argument.
C20_OpaqueCallsHaveEquations == CallsWithoutEquations = {}

\* the part of C20 that holds: only calls that were selected for inlining
\* and then found without a graph (recursion, no body) lack equations
OnlySelectedCallsLackEquations ==
    \A pr \in CallsWithoutEquations :
        /\ ctrl.recursive
        /\ as_local(crate, pr[2].fn)
        /\ should_inline(crate, pr[2].fn)

----------------------------------------------------------------------------
(* Splicing at the boundary of an inlined callee: C21 *)

\* weight w is part of weight v
Includes(v, w) == w.data \subseteq v.data /\ (w.control => v.control)

\* g has an edge from a to b whose weight includes w
HasEdgeIncluding(g, a, b, w) == HasEdge(g, a, b) /\ Includes(edge_weight(g, a, b), w)

\* this step splices the graph of a callee into the graph of the caller
IsSpliceStep ==
    /\ InlinableTarget
    /\ get(inline_memo, Head(Top.targets).def_id) = "Some"
    /\ Len(stack') = Len(stack)
    /\ stack' # stack

\* the nodes of the caller that feed input i of the call c
Feeds(g, c, i) == {e.from : e \in {x \in Incoming(g, c) : i \in x.w.data}}

\* a node of the callee as it appears in the caller
Relocated(n) ==
    IF n.kind = "Call"
    THEN CallNode(GliAt_relativize(Link(Top.body_id, outermost_location(Head(Top.targets).idx.loc)),
                                   n.loc), n.fn)
    ELSE n

\* the statement of C21 about one splice, for the callee edges whose end
\* points satisfy the two filters
SpliceRedirects(inner(_), sink(_), successor(_)) ==
    LET c == Head(Top.targets).idx
        g == Top.g
        callee == inline_memo[Head(Top.targets).def_id].graph
        after == stack'[Len(stack')].g
    IN /\ \A e \in callee.edges :
              (e.from.kind = "Argument" /\ inner(e.to)) =>
                  \A s \in Feeds(g, c, e.from.arg) :
                      successor(s) => HasEdgeIncluding(after, s, Relocated(e.to), e.w)
       /\ \A e \in callee.edges :
              (e.to = ReturnNode /\ sink(e.from)) =>
                  \A out \in Outgoing(g, c) :
                      successor(out.to)
                          => HasEdgeIncluding(after, Relocated(e.from), out.to, out.w)
       /\ ~HasNode(after, c)

IsCall(n) == n.kind = "Call"
AnyNode(n) == TRUE
NotTheCall(n) == n # Head(Top.targets).idx

\* a value handed through: a callee edge Argument(i) -> Return connects what
\* fed input i of the call to the successors of the call
SplicePassesThrough ==
    LET c == Head(Top.targets).idx
        g == Top.g
        callee == inline_memo[Head(Top.targets).def_id].graph
        after == stack'[Len(stack')].g
    IN \A e \in callee.edges :
           (e.from.kind = "Argument" /\ e.to = ReturnNode) =>
               \A s \in Feeds(g, c, e.from.arg), out \in Outgoing(g, c) :
                   (s # c /\ out.to # c) => HasEdgeIncluding(after, s, out.to, out.w)

\* C21 as stated: after inlining at call node c every callee edge
\* Argument(i) -> n yields s -> relocated n for every s that fed input i,
\* every callee edge x -> Return yields relocated x -> t for every successor
\* t of c, each with at least the weight of the callee edge or of c -> t,
\* and c is removed.
C21_SpliceRedirectsEveryEdge ==
    [][IsSpliceStep => SpliceRedirects(AnyNode, AnyNode, AnyNode)]_vars

\* C21, amended: the two rules hold for the callee edges between an argument
\* or the return node and a call node of the callee, and for the sources
\* and successors of c other than c itself; a callee edge Argument(i) ->
\* Return connects every source of input i to every successor of c with at
\* least the weight of c -> t; and c is removed.
C21_SpliceRedirectsCallEdges ==
    [][IsSpliceStep => /\ SpliceRedirects(IsCall, IsCall, NotTheCall)
                       /\ SplicePassesThrough]_vars

\* a callee has just been spliced in: a node of the caller feeds a call
\* node of the callee, and a call node of the callee feeds a node of the
\* caller
C21_Witness ==
    /\ stack # <<>>
    /\ lastGet.result = "Some" /\ lastGet.found = "Built"
    /\ lastGet.key # Top.body_id
    /\ Top.g.num_inlined > 0
    /\ \E e \in Top.g.edges :
          /\ IsCall(e.from) /\ IsCall(e.to)
          /\ is_at_root(e.from.loc) /\ ~is_at_root(e.to.loc)
    /\ \E e \in Top.g.edges :
          /\ IsCall(e.from) /\ ~is_at_root(e.from.loc)
          /\ IsCall(e.to) => is_at_root(e.to.loc)

----------------------------------------------------------------------------
(* Relocation of the nodes of a callee: C22 *)

\* the graphs held for each procedure: the stored one and those being built
GraphsOf(f) ==
    (IF inline_memo[f].state = "Built" THEN {inline_memo[f].graph} ELSE {})
        \cup {stack[i].g : i \in {j \in DOMAIN stack : stack[j].body_id = f}}

\* the procedure whose graph replaces the call at point p of f: the callee,
\* or the generator behind the closure handed to from_generator
InlinedAt(f, p) ==
    LET call == crate.bodies[f].calls[p]
    IN IF call.function = FromGenerator
       THEN crate.generators[<<f, Last(call.arguments).local>>]
       ELSE call.function

\* loc is a chain of call sites: every link is a call site of its procedure,
\* and every link but the last is replaced by the procedure of the link
\* after it
IsCallChain(loc) ==
    /\ \A k \in DOMAIN loc :
           /\ loc[k][1] \in DOMAIN crate.bodies
           /\ loc[k][2] \in DOMAIN crate.bodies[loc[k][1]].calls
    /\ \A k \in 1..(Len(loc) - 1) : InlinedAt(loc[k][1], loc[k][2]) = loc[k + 1][1]

\* the call nodes of the graphs of f start in f and are well formed; those
\* at root are the call sites of f
NodesStartIn(f, g) ==
    \A n \in CallNodes(g) :
        /\ outermost(n.loc)[1] = f
        /\ IsCallChain(n.loc)
        /\ n.fn = get_call(crate, n.loc).function
        /\ is_at_root(n.loc) <=> n.loc = globalize_location(outermost_location(n.loc), f)

\* a splice hands every node of the callee to the caller, relocated under
\* the call site, and adds no other node
SpliceRelocatesNodes ==
    LET c == Head(Top.targets).idx
        callee == inline_memo[Head(Top.targets).def_id].graph
        after == stack'[Len(stack')].g
        L == Link(Top.body_id, outermost_location(c.loc))
    IN /\ is_at_root(c.loc)
       /\ \A n \in CallNodes(callee) :
              /\ HasNode(after, CallNode(<<L>> \o n.loc, n.fn))
              /\ ~HasNode(Top.g, CallNode(<<L>> \o n.loc, n.fn))
       /\ \A m \in CallNodes(after) :
              \/ m \in CallNodes(Top.g) \ {c}
              \/ \E n \in CallNodes(callee) : m = CallNode(<<L>> \o n.loc, n.fn)

\* C22: in the graph of procedure P every call node has its outermost link
\* in P and is at root exactly when it is a call site of P; every node taken
\* from a callee inlined at call site L has L nested over its location in
\* the graph of the callee, so that nodes coming from two call sites of the
\* same callee are different nodes.
C22_NodesAreNestedUnderTheCallSite ==
    /\ [](\A f \in DOMAIN inline_memo : \A g \in GraphsOf(f) : NodesStartIn(f, g))
    /\ [][IsSpliceStep => SpliceRelocatesNodes]_vars

\* the stored graph of a procedure holds one call site of a callee twice,
\* under the two call sites at which the callee was inlined
C22_Witness ==
    \E f \in DOMAIN inline_memo :
        /\ inline_memo[f].state = "Built"
        /\ \E n, m \in CallNodes(inline_memo[f].graph) :
              /\ Len(n.loc) = 2 /\ Len(m.loc) = 2
              /\ Tail(n.loc) = Tail(m.loc)
              /\ outermost_location(n.loc) # outermost_location(m.loc)
              /\ n # m

----------------------------------------------------------------------------
(* Import of the equations of a callee: C23 *)

IsPrefix(s, t) == Len(s) <= Len(t) /\ SubSeq(t, 1, Len(s)) = s

\* the base of a callee equation as the caller holds it after inlining at L
BaseUnder(L, base) ==
    [local |-> base.local,
     location |-> IF base.location = NoLoc THEN <<L>> ELSE <<L>> \o base.location]

EquationUnder(L, eq) ==
    [lhs |-> [base |-> BaseUnder(L, eq.lhs.base), proj |-> eq.lhs.proj],
     rhs |-> [base |-> BaseUnder(L, eq.rhs.base), proj |-> eq.rhs.proj]]

\* actual@root = formal@L
Binding(L, actual, formal) ==
    [lhs |-> [base |-> [local |-> actual, location |-> NoLoc], proj |-> <<>>],
     rhs |-> [base |-> [local |-> formal, location |-> <<L>>], proj |-> <<>>]]

\* the bindings of the call at L: one for each actual argument that is not
\* a constant, one for the destination of the return value
Bindings(L, call) ==
    {Binding(L, call.arguments[a].local, a) :
        a \in {j \in DOMAIN call.arguments : call.arguments[j].some}}
      \cup (IF call.return_to = NoLocal THEN {}
            ELSE {Binding(L, call.return_to, RETURN_PLACE)})

\* what a splice does to the equations of the caller
SpliceImportsEquations ==
    LET c == Head(Top.targets).idx
        L == Link(Top.body_id, outermost_location(c.loc))
        call == crate.bodies[Top.body_id].calls[outermost_location(c.loc)]
        callee == inline_memo[Head(Top.targets).def_id].graph.equations
        before == Top.g.equations
        after == stack'[Len(stack')].g.equations
        imported == SubSeq(after, Len(before) + 1, Len(before) + Len(callee))
        bound == SubSeq(after, Len(before) + Len(callee) + 1, Len(after))
    IN /\ IsPrefix(before, after)
       /\ Len(after) >= Len(before) + Len(callee)
       /\ imported = [i \in DOMAIN callee |-> EquationUnder(L, callee[i])]
       /\ Range(bound) = Bindings(L, call)
       /\ Len(bound) = Cardinality(Bindings(L, call))

\* the equations of a graph that stays in hand only grow at their end, and
\* the stored graph has the equations the finished one had
EquationsOnlyAppended ==
    /\ \A i \in DOMAIN stack \cap DOMAIN stack' :
          stack'[i].body_id = stack[i].body_id /\ runs' = runs
              => IsPrefix(stack[i].g.equations, stack'[i].g.equations)
    /\ \A f \in DOMAIN inline_memo :
          /\ inline_memo[f].state # "Built"
          /\ f \in DOMAIN inline_memo'
          /\ inline_memo'[f].state = "Built"
          /\ stack # <<>>
          /\ Top.body_id = f
          => inline_memo'[f].graph.equations = Top.g.equations

\* C23: inlining a callee at the root call site L leaves the equations of
\* the caller as they were and appends every equation of the callee with
\* its bases moved under L, then one equation actual@root = formal@L for
\* each actual argument that is not a constant and one for the destination
\* of the return value; equations are only ever appended.
C23_EquationsAreImportedUnderTheCallSite ==
    /\ [][IsSpliceStep => SpliceImportsEquations]_vars
    /\ [][EquationsOnlyAppended]_vars

\* a graph in hand after a splice: it holds an equation of the callee moved
\* under the call site, one moved from a deeper call site, and a binding of
\* an argument
C23_Witness ==
    /\ stack # <<>>
    /\ Top.g.num_inlined > 0
    /\ lastGet.result = "Some"
    /\ \E i, j, k \in DOMAIN Top.g.equations :
          /\ Top.g.equations[i].lhs.base.location # NoLoc
          /\ Len(Top.g.equations[i].lhs.base.location) = 1
          /\ Top.g.equations[i].rhs.base.location = Top.g.equations[i].lhs.base.location
          /\ \E side \in {"lhs", "rhs"} :
                /\ Top.g.equations[j][side].base.location # NoLoc
                /\ Len(Top.g.equations[j][side].base.location) = 2
          /\ Top.g.equations[k].lhs.base.location = NoLoc
          /\ Top.g.equations[k].rhs.base.location # NoLoc
          /\ Top.g.equations[k].rhs.base.local > RETURN_PLACE

----------------------------------------------------------------------------
(* Which nodes the removal of inconsequential calls takes away: C24 *)

\* a step that finishes the graph of the procedure on top of the stack
IsFinishStep ==
    /\ stack # <<>>
    /\ Top.targets = <<>>
    /\ Len(stack') = Len(stack) - 1
    /\ lastPrune'.body = Top.body_id

\* the nodes the removal pass of this step took out of the graph
RemovedNodes == Range(Top.g.nodes) \ Range(lastPrune'.before.nodes)

\* n, a node of g, is one that the pass is allowed to remove
MayBeRemoved(g, n) ==
    /\ n.kind = "Call"
    /\ Len(n.loc) = 1
    /\ n.fn \notin crate.meaningful
    /\ n.fn # FromGenerator
    /\ ~(n.fn \in DOMAIN crate.bodies \cup crate.nobody /\ n.fn \in crate.should_inline)
    /\ \E e \in g.edges : e.to = n /\ e.w.data # {}
    /\ \E e \in g.edges : e.from = n
    /\ (\E e \in g.edges : e.from = n /\ e.w.control) => ctrl.remove = "Aggressive"
    /\ ctrl.remove # "Disabled"

\* C24: the removal of inconsequential calls removes a node only if it is a
\* call node at root whose callee the oracle does not report as meaningful,
\* is not the construction of a generator and is not a candidate for
\* inlining, with an incoming edge that carries data and an outgoing edge,
\* and without an outgoing control edge unless the policy removes sources
\* of control flow; return nodes, argument nodes and nested call nodes stay.
C24_OnlyInconsequentialCallsAreRemoved ==
    [][IsFinishStep => \A n \in RemovedNodes : MayBeRemoved(Top.g, n)]_vars

\* a finished graph from which the pass took a call of the procedure, while
\* an argument or nested node and the return node stayed
C24_Witness ==
    /\ lastPrune.body # ""
    /\ ctrl.remove # "Disabled"
    /\ \E p \in DOMAIN crate.bodies[lastPrune.body].calls :
          LET call == crate.bodies[lastPrune.body].calls[p]
              n == CallNode(globalize_location(p, lastPrune.body), call.function)
          IN /\ ~HasNode(lastPrune.before, n)
             /\ call.function \notin crate.should_inline
             /\ call.function # FuturePoll
             /\ \E a \in DOMAIN call.arguments : call.arguments[a].deps # {}
             /\ \E q \in DOMAIN crate.bodies[lastPrune.body].calls :
                   \E a \in DOMAIN crate.bodies[lastPrune.body].calls[q].arguments :
                       TCall(p) \in crate.bodies[lastPrune.body].calls[q].arguments[a].deps
    /\ HasNode(lastPrune.before, ReturnNode)
    /\ \E m \in Range(lastPrune.before.nodes) :
          m.kind = "Argument" \/ (m.kind = "Call" /\ Len(m.loc) > 1)

----------------------------------------------------------------------------
(* What the removal of inconsequential calls leaves connected: C25 *)

\* the nodes reached from the nodes in frontier over edges of g, passing
\* only through nodes of the set through
RECURSIVE ReachThrough(_, _, _, _)
ReachThrough(g, frontier, through, found) ==
    LET next == {e.to : e \in {x \in g.edges : x.from \in frontier}} \ found
    IN IF next = {} THEN found
       ELSE ReachThrough(g, next \cap through, through, found \cup next)

\* the nodes to which a path of g leads from a
Reachable(g, a) == ReachThrough(g, {a}, Range(g.nodes), {})

\* the removed nodes reached from p through removed nodes only
RemovedBehind(p) == ReachThrough(Top.g, {p}, RemovedNodes, {}) \cap RemovedNodes

\* every remaining p with a path through removed calls to n, and every
\* remaining successor s of n, are joined by an edge that includes n -> s
RemovalBridges ==
    \A p \in Range(lastPrune'.before.nodes) :
        \A n \in RemovedBehind(p) :
            \A e \in Outgoing(Top.g, n) :
                e.to \notin RemovedNodes
                    => HasEdgeIncluding(lastPrune'.before, p, e.to, e.w)

\* the edges between remaining nodes keep what they carried
RemovalKeepsEdges ==
    \A e \in Top.g.edges :
        e.from \notin RemovedNodes /\ e.to \notin RemovedNodes
            => HasEdgeIncluding(lastPrune'.before, e.from, e.to, e.w)

\* remaining nodes joined by a path before the pass are joined after it
RemovalKeepsPaths ==
    \A a \in Range(lastPrune'.before.nodes) :
        Reachable(Top.g, a) \cap Range(lastPrune'.before.nodes)
            \subseteq Reachable(lastPrune'.before, a)

\* C25: removing an inconsequential call n joins every predecessor of n to
\* every successor of n by an edge whose weight includes that of the edge
\* from n to the successor, merged into what the edge carried, and deletes
\* n; nodes that remain and were joined by a path before the pass are
\* joined after it, also when adjacent calls are removed in one pass.
C25_RemovalKeepsNodesConnected ==
    [][IsFinishStep => RemovalBridges /\ RemovalKeepsEdges /\ RemovalKeepsPaths]_vars

\* a finished graph from which one pass took two adjacent calls, with the
\* edge that bridges both
C25_Witness ==
    /\ lastPrune.body # ""
    /\ ctrl.remove # "Disabled"
    /\ \E p, q, r, t \in DOMAIN crate.bodies[lastPrune.body].calls :
          LET calls == crate.bodies[lastPrune.body].calls
              node(x) == CallNode(globalize_location(x, lastPrune.body), calls[x].function)
          IN /\ \E a \in DOMAIN calls[q].arguments : TCall(p) \in calls[q].arguments[a].deps
             /\ \E a \in DOMAIN calls[r].arguments : TCall(q) \in calls[r].arguments[a].deps
             /\ \E a \in DOMAIN calls[t].arguments : TCall(r) \in calls[t].arguments[a].deps
             /\ Cardinality({p, q, r, t}) = 4
             /\ ~HasNode(lastPrune.before, node(q))
             /\ ~HasNode(lastPrune.before, node(r))
             /\ HasEdge(lastPrune.before, node(p), node(t))

----------------------------------------------------------------------------
(* What pruning changes: C26 *)

\* whether the solver joins the place of argument idx of the node to with
\* an argument place or the return place of the node from
SolverJoins(g, from, to, idx) ==
    \E a \in DestinationPlaces(to, idx) : solve_with(g.equations, a, SourcePlaces(from))

\* what the edge e of the graph before pruning has become
PrunedAsSpecified(e) ==
    LET given == <<e.from, e.to>> \in lastPrune.edges
        data == IF given
                THEN {idx \in e.w.data : SolverJoins(lastPrune.before, e.from, e.to, idx)}
                ELSE e.w.data
    IN IF data = {} /\ ~e.w.control
       THEN ~HasEdge(lastPrune.after, e.from, e.to)
       ELSE /\ HasEdge(lastPrune.after, e.from, e.to)
            /\ edge_weight(lastPrune.after, e.from, e.to) = [data |-> data, control |-> e.w.control]

\* the graph after pruning has nothing that the graph before did not have:
\* every edge was there with all its bits and the same control flag, no
\* weight is empty, edges outside the set are as they were, and an edge is
\* gone only if it was in the set and carried no control flag
OnlyRemoved ==
    /\ \A e \in lastPrune.after.edges :
          /\ HasEdgeIncluding(lastPrune.before, e.from, e.to, e.w)
          /\ edge_weight(lastPrune.before, e.from, e.to).control = e.w.control
          /\ ~Edge_is_empty(e.w)
    /\ \A e \in lastPrune.before.edges :
          /\ <<e.from, e.to>> \notin lastPrune.edges => e \in lastPrune.after.edges
          /\ ~HasEdge(lastPrune.after, e.from, e.to)
                => <<e.from, e.to>> \in lastPrune.edges /\ ~e.w.control /\ e.w.data # {}

\* C26: pruning only removes information: of an edge in the set handed to
\* it a data bit is cleared exactly when the solver finds no path between
\* the location of the destination's argument and the locations of the
\* source, and the edge is deleted exactly when its weight has become empty;
\* control flags, nodes, equations and all other edges stay as they are, and
\* no edge and no bit is added.
C26_PruningOnlyRemovesInformation ==
    lastPrune.body # "" =>
        /\ OnlyRemoved
        /\ \A e \in lastPrune.before.edges : PrunedAsSpecified(e)
        /\ lastPrune.after.nodes = lastPrune.before.nodes
        /\ lastPrune.after.equations = lastPrune.before.equations
        /\ lastPrune.after.num_inlined = lastPrune.before.num_inlined

\* a pruning that deleted one edge, cleared a bit of an edge that stayed,
\* and left alone an edge outside the set handed to it
C26_Witness ==
    /\ lastPrune.body # ""
    /\ lastPrune.edges # {}
    /\ \E e \in lastPrune.before.edges :
          /\ <<e.from, e.to>> \in lastPrune.edges
          /\ ~HasEdge(lastPrune.after, e.from, e.to)
    /\ \E e \in lastPrune.before.edges :
          /\ <<e.from, e.to>> \in lastPrune.edges
          /\ HasEdge(lastPrune.after, e.from, e.to)
          /\ edge_weight(lastPrune.after, e.from, e.to) # e.w
    /\ \E e \in lastPrune.before.edges : <<e.from, e.to>> \notin lastPrune.edges

----------------------------------------------------------------------------
(* Weights of edges: C27 *)

\* every graph the inliner holds: stored, under construction, and the two
\* graphs of the last removal and pruning
GraphsSeen == GraphsInHand \cup {lastPrune.before, lastPrune.after}

\* the weights found on the edges of these graphs
WeightsSeen == {e.w : e \in UNION {g.edges : g \in GraphsSeen}}

\* Edge::merge behaves as a bitwise or on the weights u, v, w
MergeIsOr(u, v, w) ==
    /\ Edge_merge(u, v) = Edge_merge(v, u)
    /\ Edge_merge(Edge_merge(u, v), w) = Edge_merge(u, Edge_merge(v, w))
    /\ Edge_merge(u, u) = u
    /\ Includes(Edge_merge(u, v), u) /\ Includes(Edge_merge(u, v), v)
    /\ \A t \in into_types(Edge_merge(u, v)) : t \in into_types(u) \cup into_types(v)

\* the edges of the caller's graph that do not touch the call keep, through
\* the splice of this step, every bit they carried
SpliceKeepsBits ==
    LET c == Head(Top.targets).idx
    IN \A e \in Top.g.edges :
          e.from # c /\ e.to # c
              => HasEdgeIncluding(stack'[Len(stack')].g, e.from, e.to, e.w)

\* C27: every edge of a graph after construction, inlining, dropping of a
\* poll, removal of inconsequential calls or pruning has a weight that is
\* not empty; merging two weights is a bitwise or: commutative, associative,
\* idempotent, and never clears a bit, so that the edges a splice merges
\* into keep what they carried.
C27_WeightsAreNeverEmpty ==
    /\ [](\A w \in WeightsSeen : ~Edge_is_empty(w))
    /\ [](\A u, v, w \in WeightsSeen \cup {EmptyEdge} : MergeIsOr(u, v, w))
    /\ [][IsSpliceStep => SpliceKeepsBits]_vars

\* a stored graph with an edge, made by inlining, whose weight was merged
\* from two
C27_Witness ==
    \E f \in DOMAIN inline_memo :
        /\ inline_memo[f].state = "Built"
        /\ inline_memo[f].graph.num_inlined > 0
        /\ \E e \in inline_memo[f].graph.edges :
              /\ e.from.kind = "Call" /\ e.to.kind = "Call"
              /\ Len(e.from.loc) = 1 /\ Len(e.to.loc) = 2
              /\ Cardinality(into_types(e.w)) >= 2
        /\ Cardinality(WeightsSeen) >= 3

----------------------------------------------------------------------------
(* The flow is the projection of the graph: C28 *)

\* this step hands out the flow of an entry point
IsExtractStep == Len(trace') = Len(trace) + 1

\* the location under which the flow reports the source of an edge
ReportedAs(entry, n) ==
    IF n.kind = "Argument" THEN globalize_location(0 - (n.arg + 1), entry) ELSE n.loc

\* the flow fl is the projection of the graph g of the entry point
IsProjection(entry, fl, g) ==
    LET calls == {n \in Range(g.nodes) : n.kind = "Call"}
        sources(n, bit) ==
            {ReportedAs(entry, e.from) : e \in {x \in g.edges : x.to = n /\ bit \in x.w.data}}
    IN /\ {d.loc : d \in fl.location_dependencies} = {n.loc : n \in calls}
       /\ Cardinality(fl.location_dependencies) = Cardinality(calls)
       /\ \A d \in fl.location_dependencies :
             \E n \in calls :
                 /\ n.loc = d.loc
                 /\ \A i \in DOMAIN d.deps.input_deps :
                        d.deps.input_deps[i] = sources(n, i - 1)
                 /\ \A e \in g.edges :
                        e.to = n => \A bit \in e.w.data : bit + 1 \in DOMAIN d.deps.input_deps
                 /\ d.deps.ctrl_deps =
                        {ReportedAs(entry, e.from) :
                            e \in {x \in g.edges : x.to = n /\ x.w.control}}
       /\ fl.return_dependencies =
             {ReportedAs(entry, e.from) : e \in {x \in g.edges : x.to = ReturnNode}}

\* C28: the flow extracted from a graph is its exact projection: the keys
\* are the locations of the call nodes, also of those without an incoming
\* edge; input_deps[i] holds the sources of the incoming edges with data bit
\* i and ctrl_deps those of the incoming control edges; an argument is
\* reported under the location mk_arg gives it and has no key; the return
\* dependencies are the sources of all edges into the return node.
C28_FlowIsTheProjectionOfTheGraph ==
    [][IsExtractStep =>
          IsProjection(Last(trace').entry, Last(trace').flow,
                       inline_memo'[Last(trace').entry].graph)]_vars

\* extracted flows with a key that depends on nothing, and with a key that
\* depends on an argument of the entry point next to a return dependency
C28_Witness ==
    /\ \E k \in DOMAIN trace :
          \E d \in trace[k].flow.location_dependencies :
              d.deps.input_deps = <<>> /\ d.deps.ctrl_deps = {}
    /\ \E k \in DOMAIN trace :
          /\ \E d \in trace[k].flow.location_dependencies :
                \E i \in DOMAIN d.deps.input_deps :
                    globalize_location(0 - 1, trace[k].entry) \in d.deps.input_deps[i]
          /\ trace[k].flow.return_dependencies # {}

----------------------------------------------------------------------------
(* Termination of deep_dependencies_of: C29 *)

\* what a search may report: function calls that are kept, and arguments of
\* the entry point, neither of them a translation boundary
Reportable(location) ==
    /\ ~AtBoundary(prog, location)
    /\ \/ /\ Last(location) \in DOMAIN prog.stmts
          /\ prog.stmts[Last(location)].kind = "call"
       \/ /\ Last(location) \notin DOMAIN prog.stmts
          /\ Len(location) = 1

\* C29: the reverse depth-first search deep_dependencies_of terminates on
\* every finite flow graph, also when a row names its own location or when
\* the dependencies form a cycle through translated locations, and it
\* reports only kept function calls and arguments of the entry point.
C29_SearchTerminates ==
    /\ dfs.running ~> ~dfs.running
    /\ [](dfs.running => \A location \in dfs.deps : Reportable(location))

----------------------------------------------------------------------------
(* The stored graph and the order of the requests: C30 *)

\* the body of f has a call of g
CallsDirectly(f, g) ==
    \E p \in DOMAIN crate.bodies[f].calls : crate.bodies[f].calls[p].function = g

\* f and another procedure call each other
MutuallyRecursive(f) ==
    \E g \in DOMAIN crate.bodies \ {f} : CallsDirectly(f, g) /\ CallsDirectly(g, f)

\* C30: the graph stored for a procedure does not depend on what was asked
\* for earlier in the run: of two mutually recursive procedures each has the
\* same dependencies whether it was requested first or was first reached
\* while the graph of the other was in progress.
C30_MemoIsIndependentOfTheRequestOrder ==
    \A i \in DOMAIN prev, j \in DOMAIN trace :
        prev[i].entry = trace[j].entry /\ MutuallyRecursive(trace[j].entry)
            => prev[i].flow = trace[j].flow

====
